---- MODULE Spec2Model ----
(***************************************************************************)
(* State-machine model of the interactive mask / viewport engine of        *)
(* BGRemover.py (class BackgroundRemoverGUI).                              *)
(*                                                                         *)
(* Images are modelled pixel by pixel on very small grids.  A grayscale    *)
(* ("L") image is a record [size, pix]; derived RGBA buffers (the cut-out, *)
(* the blurred shadow, the inpainted background) are modelled as terms     *)
(* that record the inputs they were computed from.  Lengths in image       *)
(* space (view_x, view_y, pan_step, stroke coordinates) are exact          *)
(* rationals, stored as integers in units of 1/Scale source pixels.        *)
(***************************************************************************)
EXTENDS Integers, Sequences, FiniteSets, TLC

\* ------------------------------------------------------------------ values

None == << >>
Some(x) == << x >>
IsNone(o) == Len(o) = 0
Val(o) == o[1]

Min(a, b) == IF a <= b THEN a ELSE b
Max(a, b) == IF a >= b THEN a ELSE b
Abs(a) == IF a >= 0 THEN a ELSE -a

RECURSIVE GCD(_, _)
GCD(a, b) == IF b = 0 THEN a ELSE GCD(b, a % b)
LCM(a, b) == (a \div GCD(a, b)) * b

RECURSIVE Pow(_, _)
Pow(b, e) == IF e = 0 THEN 1 ELSE b * Pow(b, e - 1)

RECURSIVE LcmOf(_)
LcmOf(S) == IF S = {} THEN 1 ELSE LET x == CHOOSE y \in S : TRUE IN LCM(x, LcmOf(S \ {x}))

Last(s) == s[Len(s)]
Front(s) == SubSeq(s, 1, Len(s) - 1)

\* ------------------------------------------------------- program constants

UNDO_STEPS == 20
MAX_ZOOM_FACTOR == 50
DEFAULT_ZOOM_FACTOR == <<6, 5>>
PAN_STEP == 30
PAINT_BRUSH_DIAMETER == 18

\* ------------------------------------------------------------ model bounds

\* Mutations of the working mask (snapshots pushed) in one run.
MaxEdits == 2
\* "Clear result" commands in one run of the deep-history specification.
MaxClears == 1
\* Worker tasks started in one run.
MaxTasks == 2
\* Paint strokes held at one time.
MaxLines == 1
\* Viewport moves (zoom, pan, resize) in one run.
MaxMoves == 3
\* Mutations of the working mask in one run of the viewport specification.
ViewEdits == 1
\* Significant bits of a float (53 in CPython).
MANT_DIG == 10
\* Wheel steps in one direction of a zoom round trip.
WheelSteps == 2

\* The images of a session: the grey placeholder and the files that can be
\* opened, each with its size <<width, height>> in pixels.
PLACEHOLDER == [name |-> "placeholder", size |-> <<3, 1>>]
ImageFiles == {[name |-> "a.png", size |-> <<3, 1>>], [name |-> "b.png", size |-> <<2, 1>>]}
\* A file smaller than the canvas divided by MAX_ZOOM_FACTOR.
ICON == [name |-> "icon.png", size |-> <<1, 1>>]
Images == {PLACEHOLDER, ICON} \cup ImageFiles

\* Canvas sizes <<canvas_w, canvas_h>> a window layout can give.
INIT_CANVAS == <<75, 75>>
CanvasSizes == {<<75, 75>>, <<90, 90>>}

\* -------------------------------------------------------- exact arithmetic

\* A zoom factor is a reduced fraction <<n, d>>.
Rat(n, d) == LET g == GCD(n, d) IN <<n \div g, d \div g>>
RatLe(a, b) == a[1] * b[2] <= b[1] * a[2]
RatLt(a, b) == a[1] * b[2] < b[1] * a[2]
RatMin(a, b) == IF RatLe(a, b) THEN a ELSE b
RatMax(a, b) == IF RatLe(a, b) THEN b ELSE a
RatMul(a, b) == Rat(a[1] * b[1], a[2] * b[2])
RatDiv(a, b) == Rat(a[1] * b[2], a[2] * b[1])

LowestZoom(canvas, size) == RatMin(Rat(canvas[1], size[1]), Rat(canvas[2], size[2]))

RECURSIVE ZoomInSteps(_)
ZoomInSteps(z) ==
    LET c == RatMul(z, DEFAULT_ZOOM_FACTOR)
    IN  IF RatLe(c, <<MAX_ZOOM_FACTOR, 1>>) THEN 1 + ZoomInSteps(c) ELSE 0

AllCanvas == CanvasSizes \cup {INIT_CANVAS}
MaxZoomSteps ==
    LET S == {ZoomInSteps(LowestZoom(c, i.size)) : c \in AllCanvas, i \in Images}
    IN  CHOOSE k \in S : \A j \in S : j <= k

\* Units per source pixel: every reachable zoom numerator divides Scale, so
\* c / zoom is a whole number of units for every integer c.
Scale ==
    LcmOf({c[1] : c \in AllCanvas} \cup {c[2] : c \in AllCanvas})
        * Pow(DEFAULT_ZOOM_FACTOR[1], MaxZoomSteps)

Px(n) == n * Scale
DivZoom(c, z) == c * z[2] * (Scale \div z[1])
IntOf(x) == x \div Scale
CeilOf(x) == (x + Scale - 1) \div Scale
IntMulZoom(n, z) == (n * z[1]) \div z[2]

\* ------------------------------------------------------------ pixel images

Pix(size) == (0 .. size[1] - 1) \X (0 .. size[2] - 1)
NewL(size, c) == [size |-> size, pix |-> [p \in Pix(size) |-> c]]
BoxSize(box) == <<box[3] - box[1], box[4] - box[2]>>
InBox(p, box) == box[1] <= p[1] /\ p[1] < box[3] /\ box[2] <= p[2] /\ p[2] < box[4]

\* Image.paste(im, box): the region must have the size of im.
PasteRaises(im, box) == im.size # BoxSize(box)
\* Image.paste as it would be if it ignored the position of the box.
Paste_at_origin(dst, im, box) ==
    [dst EXCEPT !.pix = [p \in Pix(dst.size) |->
        IF InBox(p, <<0, 0, im.size[1], im.size[2]>>) THEN im.pix[p] ELSE dst.pix[p]]]

Paste(dst, im, box) ==
    [dst EXCEPT !.pix = [p \in Pix(dst.size) |->
        IF InBox(p, box) THEN im.pix[<<p[1] - box[1], p[2] - box[2]>>] ELSE dst.pix[p]]]

ChopsAdd(a, b) == [a EXCEPT !.pix = [p \in Pix(a.size) |-> Min(255, a.pix[p] + b.pix[p])]]
\* ImageChops.subtract as it would be if it took the inverted mask.
ChopsSubtract_inverted(a, b) ==
    [a EXCEPT !.pix = [p \in Pix(a.size) |-> Max(0, a.pix[p] - (255 - b.pix[p]))]]

ChopsSubtract(a, b) == [a EXCEPT !.pix = [p \in Pix(a.size) |-> Max(0, a.pix[p] - b.pix[p])]]

\* ------------------------------------------------------------------- state

VARIABLES
    \* document
    original_image, working_mask, working_image,
    undo_history_mask, redo_history_mask,
    \* which image object the mask and each snapshot is
    object_ids,
    \* caches and compositing options
    cached_blurred_shadow, _last_shadow_radius, cached_blur_image,
    current_blur_radius, bg_mode, enable_shadow_var, shadow_radius,
    shadow_opacity, shadow_x, shadow_y,
    soften_mask_var, blur_radius_var, show_mask_var, output_displayed,
    \* preview mask and its sources
    model_output_mask, raw_model_mask, raw_sam_logits, encoder_output, sam_active,
    unified_var, paint_mode, lines, coordinates,
    \* viewport
    canvas_w, canvas_h, init_size, zoom_factor, lowest_zoom_factor,
    view_x, view_y, min_zoom, pan_step, orig_image_crop, pad, resampling_filter,
    after_id, panning, pan_start, click_start,
    \* worker
    loading_overlay, result_queue, queues, workers, monitors, next_task,
    whole_image_button,
    \* user-visible status line
    status,
    \* export: the format chosen and the file written last
    export_format, saved_file,
    \* bookkeeping of the run: the commands the user still issues, the
    \* last history commands with the mask before and after each, and the
    \* worker results handed to callbacks
    limits, cmd_log, delivered

docVars == <<original_image, working_mask, working_image,
             undo_history_mask, redo_history_mask, object_ids>>
cacheVars == <<cached_blurred_shadow, _last_shadow_radius, cached_blur_image,
               current_blur_radius, bg_mode, enable_shadow_var, shadow_radius,
               shadow_opacity, shadow_x, shadow_y,
               soften_mask_var, blur_radius_var, show_mask_var, output_displayed>>
aiVars == <<model_output_mask, raw_model_mask, raw_sam_logits, encoder_output, sam_active,
            unified_var, paint_mode, lines, coordinates>>
viewVars == <<canvas_w, canvas_h, init_size, zoom_factor, lowest_zoom_factor,
              view_x, view_y, min_zoom, pan_step, orig_image_crop, pad,
              resampling_filter, after_id, panning, pan_start, click_start>>
workerVars == <<loading_overlay, result_queue, queues, workers, monitors,
                next_task, whole_image_button>>
exportVars == <<export_format, saved_file>>
vars == <<docVars, cacheVars, aiVars, viewVars, workerVars, status, exportVars,
          limits, cmd_log, delivered>>

\* ------------------------------------------------------------- compositing

\* Values the sliders of the model can be set to.
ShadowRadii == {10, 20}
BlurRadii == {20, 40}

IsUniform(m) == \A p, q \in Pix(m.size) : m.pix[p] = m.pix[q]

\* cutout_working_image with the Soften Edges toggle at soften and its
\* slider at sradius: Image.composite(original_image, empty, mask_to_use).
\* A Gaussian blur leaves a uniform mask as it is.
cutout_softened(orig, mask, soften, sradius) ==
    [src |-> orig.name,
     alpha |-> [mask |-> mask,
                soften |-> IF soften /\ sradius > 0 /\ ~IsUniform(mask)
                           THEN sradius ELSE 0],
     shadow |-> None, placed |-> None]

\* cutout_working_image under the current soften settings.
cutout_working_image(orig, mask) ==
    cutout_softened(orig, mask, soften_mask_var, blur_radius_var)

\* Image.new("RGBA", size): every pixel transparent, which is the cut-out
\* under the all-zero mask.
BlankRGBA(orig) ==
    [src |-> orig.name, alpha |-> [mask |-> NewL(orig.size, 0), soften |-> 0],
     shadow |-> None, placed |-> None]

\* The blurred shadow alpha of add_drop_shadow: downsample, blur, upsample.
BlurredShadow(mask, radius) ==
    [mask |-> mask, radius |-> radius]

\* add_drop_shadow as it would be without the comparison with the last
\* radius: whatever is cached is used.
add_drop_shadow_placed_any_radius(orig, mask, cache, last, enabled, radius, soften, sradius, placed) ==
    LET cut == cutout_softened(orig, mask, soften, sradius)
        cached1 == IF IsNone(cache)
                   THEN Some(BlurredShadow(mask, radius)) ELSE cache
    IN  IF ~enabled
        THEN [img |-> cut, cache |-> cache, last |-> last, raised |-> FALSE]
        ELSE IF Val(cached1).mask.size # orig.size
        THEN [img |-> cut, cache |-> cached1, last |-> Some(radius), raised |-> TRUE]
        ELSE [img |-> [cut EXCEPT !.shadow = cached1, !.placed = Some(placed)],
              cache |-> cached1, last |-> Some(radius), raised |-> FALSE]

\* add_drop_shadow, as a function of the mask and the cache it finds and
\* of the sliders: placed is <<opacity, x, y>>, the opacity the blurred
\* alpha is multiplied by and the offset it is pasted at.  The result
\* names the new working image, the new cache fields, and whether
\* putalpha raised (the cached alpha has another size than the image).
add_drop_shadow_placed(orig, mask, cache, last, enabled, radius, soften, sradius, placed) ==
    LET cut == cutout_softened(orig, mask, soften, sradius)
        cached0 == IF last # Some(radius) THEN None ELSE cache
        cached1 == IF IsNone(cached0)
                   THEN Some(BlurredShadow(mask, radius)) ELSE cached0
    IN  IF ~enabled
        THEN [img |-> cut, cache |-> cache, last |-> last, raised |-> FALSE]
        ELSE IF Val(cached1).mask.size # orig.size
        THEN [img |-> cut,
              cache |-> IF IsNone(cached0) THEN cached1 ELSE cache,
              last |-> Some(radius), raised |-> TRUE]
        ELSE [img |-> [cut EXCEPT !.shadow = cached1, !.placed = Some(placed)],
              cache |-> IF IsNone(cached0) THEN cached1 ELSE cache,
              last |-> Some(radius), raised |-> FALSE]

\* add_drop_shadow with the opacity and offset sliders as they are.
add_drop_shadow_softened(orig, mask, cache, last, enabled, radius, soften, sradius) ==
    add_drop_shadow_placed(orig, mask, cache, last, enabled, radius, soften, sradius,
                           <<shadow_opacity, shadow_x, shadow_y>>)

\* add_drop_shadow under the current soften settings.
add_drop_shadow(orig, mask, cache, last, enabled, radius) ==
    add_drop_shadow_softened(orig, mask, cache, last, enabled, radius,
                             soften_mask_var, blur_radius_var)

\* regenerate_smart_blur: inpaint the subject away and blur the result.
regenerate_smart_blur(orig, mask, radius) ==
    Some([src |-> orig.name, mask |-> mask, radius |-> radius])

\* update_output_image_preview as it would be if apply_background_color
\* blurred the background anew each time.
output_preview_regenerating(orig, mask, img, mode, cblur, show_mask) ==
    LET shown == IF show_mask
                 THEN [src |-> "mask", alpha |-> [mask |-> mask, soften |-> 0],
                       shadow |-> None, placed |-> None]
                 ELSE img
        cb == IF mode = "blur"
              THEN regenerate_smart_blur(orig, mask, current_blur_radius) ELSE cblur
    IN  [out |-> [fg |-> shown, mode |-> mode,
                  bg |-> IF mode = "blur" THEN cb ELSE None],
         cblur |-> cb]

\* update_output_image_preview with apply_background_color: what the output
\* canvas shows, and the blur cache afterwards (filled on a miss).
output_preview(orig, mask, img, mode, cblur, show_mask) ==
    LET shown == IF show_mask
                 THEN [src |-> "mask", alpha |-> [mask |-> mask, soften |-> 0],
                       shadow |-> None, placed |-> None]
                 ELSE img
        cb == IF mode = "blur" /\ IsNone(cblur)
              THEN regenerate_smart_blur(orig, mask, current_blur_radius) ELSE cblur
    IN  [out |-> [fg |-> shown, mode |-> mode,
                  bg |-> IF mode = "blur" THEN cb ELSE None],
         cblur |-> cb]

\* update_output_image_preview with the Alpha Channel toggle as it is.
update_output_image_preview(orig, mask, img, mode, cblur) ==
    output_preview(orig, mask, img, mode, cblur, show_mask_var)

\* ---------------------------------------------------------------- viewport

\* _calculate_preview_image: the crop box shown on the canvases ...
CropBox(vx, vy, z, cw, ch, size) ==
    <<IntOf(vx), IntOf(vy),
      IntOf(vx + Px(Min(CeilOf(DivZoom(cw, z)), size[1]))),
      IntOf(vy + Px(Min(CeilOf(DivZoom(ch, z)), size[2])))>>

\* ... and the padding that centres the scaled crop.
PadOf(box, z, cw, ch) ==
    <<Max(0, (cw - IntMulZoom(box[3] - box[1], z)) \div 2),
      Max(0, (ch - IntMulZoom(box[4] - box[2], z)) \div 2)>>

\* ----------------------------------------------------------------- history

\* The log keeps the last three history commands (none where the run
\* does not log).
Logged(op, pre, post) ==
    LET l == Append(cmd_log, [op |-> op, pre |-> pre, post |-> post])
    IN  IF ~limits.log THEN << >> ELSE IF Len(l) > 3 THEN Tail(l) ELSE l

\* What a worker request finds or leaves: the document and the preview
\* with its raw sources.
Snapshot(mask, undos, redos, preview, raw, logits) ==
    [mask |-> mask, undo |-> undos, redo |-> redos, preview |-> preview,
     raw |-> raw, logits |-> logits]

Spend(clear) ==
    [limits EXCEPT !.edits = @ - 1, !.clears = IF clear THEN @ - 1 ELSE @]

Moved == [limits EXCEPT !.moves = @ - 1]

\* ------------------------------------------------------------------- init

\* The state after __init__ with the default configuration, img as the
\* source image and the canvases laid out at size canvas.
ConstructAt(canvas, img) ==
    LET z0 == LowestZoom(canvas, img.size)
        box0 == CropBox(0, 0, z0, canvas[1], canvas[2], img.size)
        m0 == NewL(img.size, 0)
        img0 == cutout_working_image(img, m0)
    IN  /\ original_image = img
        /\ working_mask = m0
        /\ working_image = BlankRGBA(img)
        /\ undo_history_mask = <<m0>>
        /\ redo_history_mask = << >>
        /\ object_ids = [mask |-> 0, undo |-> <<1>>, redo |-> << >>]
        /\ cached_blurred_shadow = None
        /\ _last_shadow_radius = None
        /\ cached_blur_image = None
        /\ current_blur_radius = 20
        /\ bg_mode = "transparent"
        /\ enable_shadow_var = FALSE
        /\ shadow_radius = 10
        /\ shadow_opacity = 50
        /\ shadow_x = 50
        /\ shadow_y = 50
        /\ soften_mask_var = FALSE
        /\ blur_radius_var = 0
        /\ show_mask_var = FALSE
        /\ output_displayed = [fg |-> BlankRGBA(img), mode |-> "transparent",
                               bg |-> None]
        /\ model_output_mask = None
        /\ raw_model_mask = None
        /\ raw_sam_logits = None
        /\ encoder_output = None
        /\ sam_active = FALSE
        /\ unified_var = 50
        /\ paint_mode = FALSE
        /\ lines = << >>
        /\ coordinates = << >>
        /\ canvas_w = canvas[1]
        /\ canvas_h = canvas[2]
        /\ init_size = canvas
        /\ zoom_factor = z0
        /\ lowest_zoom_factor = z0
        /\ view_x = 0
        /\ view_y = 0
        /\ min_zoom = TRUE
        /\ pan_step = Px(PAN_STEP)
        /\ orig_image_crop = [src |-> img.name, box |-> box0]
        /\ pad = PadOf(box0, z0, canvas[1], canvas[2])
        /\ resampling_filter = "BOX"
        /\ after_id = FALSE
        /\ panning = FALSE
        /\ pan_start = <<0, 0>>
        /\ click_start = <<0, 0>>
        /\ loading_overlay = FALSE
        /\ result_queue = 0
        /\ queues = << >>
        /\ workers = {}
        /\ monitors = {}
        /\ next_task = 1
        /\ whole_image_button = "normal"
        /\ status = "Status: Ready"
        /\ export_format = "png"
        /\ saved_file = None
        /\ cmd_log = << >>
        /\ delivered = {}

\* The state after __init__ with no image on the command line.
Construct == ConstructAt(INIT_CANVAS, PLACEHOLDER)

Init ==
    /\ Construct
    /\ limits = [edits |-> MaxEdits, clears |-> MaxEdits, moves |-> MaxMoves, log |-> TRUE]

\* --------------------------------------------------------- frame shorthands

CropSize == BoxSize(orig_image_crop.box)

\* The paste box of _apply_mask_modification and the crop box of
\* update_sam_threshold: the viewport origin and the size of the last crop.
ViewBox ==
    <<IntOf(view_x), IntOf(view_y),
      IntOf(view_x + Px(CropSize[1])), IntOf(view_y + Px(CropSize[2]))>>

\* ------------------------------------------- canvas to image coordinates

\* zoom: the cursor position "in un-zoomed image coordinates".
zoom_anchor(ev) ==
    <<view_x + DivZoom(ev[1], zoom_factor), view_y + DivZoom(ev[2], zoom_factor)>>

\* generate_sam_mask: the click "in the original image space"; box_event
\* maps the corners of a box the same way.
sam_point(ev) ==
    <<view_x + DivZoom(ev[1] - pad[1], zoom_factor),
      view_y + DivZoom(ev[2] - pad[2], zoom_factor)>>

\* paint_draw_point: the stroke position, relative to the crop on display.
paint_point(ev) ==
    <<DivZoom(ev[1] - pad[1], zoom_factor), DivZoom(ev[2] - pad[2], zoom_factor)>>

\* -------------------------------------------------------- mask history

\* add_undo_step as it would be if it skipped a snapshot equal to the top.
add_undo_step_distinct(hist, mask) ==
    IF Last(hist) = mask THEN hist
    ELSE LET h == Append(hist, mask)
         IN  IF Len(h) > UNDO_STEPS THEN Tail(h) ELSE h

\* add_undo_step as it would be with pop() for pop(0): on overflow the
\* newest entry goes, not the oldest.
add_undo_step_newest(hist, mask) ==
    LET h == Append(hist, mask)
    IN  IF Len(h) > UNDO_STEPS THEN Front(h) ELSE h

\* add_undo_step: push a copy, drop the oldest entry beyond UNDO_STEPS.
add_undo_step(hist, mask) ==
    LET h == Append(hist, mask)
    IN  IF Len(h) > UNDO_STEPS THEN Tail(h) ELSE h

\* undo as it would be if it made the popped snapshot current.
undo_step_popped(hist, rhist, mask) ==
    IF Len(hist) > 1
    THEN [undo |-> Front(hist), redo |-> Append(rhist, Last(hist)),
          mask |-> Last(hist), done |-> TRUE]
    ELSE [undo |-> hist, redo |-> rhist, mask |-> mask, done |-> FALSE]

\* undo as it would be with the guard len(undo_history_mask) > 0: the
\* only snapshot is popped, and reading the new top raises.
undo_step_unguarded(hist, rhist, mask) ==
    IF Len(hist) > 1
    THEN [undo |-> Front(hist), redo |-> Append(rhist, Last(hist)),
          mask |-> Last(Front(hist)), done |-> TRUE]
    ELSE [undo |-> Front(hist), redo |-> Append(rhist, Last(hist)),
          mask |-> mask, done |-> FALSE]

\* undo on the stacks and the mask: with more than one snapshot, pop the
\* top onto the redo stack and make the new top current.
undo_step(hist, rhist, mask) ==
    IF Len(hist) > 1
    THEN [undo |-> Front(hist), redo |-> Append(rhist, Last(hist)),
          mask |-> Last(Front(hist)), done |-> TRUE]
    ELSE [undo |-> hist, redo |-> rhist, mask |-> mask, done |-> FALSE]

\* redo on the stacks and the mask: with a redo entry, pop it onto the
\* undo stack and make it current.
redo_step(hist, rhist, mask) ==
    IF Len(rhist) > 0
    THEN [undo |-> Append(hist, Last(rhist)), redo |-> Front(rhist),
          mask |-> Last(rhist), done |-> TRUE]
    ELSE [undo |-> hist, redo |-> rhist, mask |-> mask, done |-> FALSE]

\* ------------------------------------------------------- object identity

\* object_ids names, by a number, the image object self.working_mask refers
\* to and the object each entry of the two stacks is.  Only which of them
\* coincide matters, so the numbers are kept in order of appearance.
Objects(ids) ==
    {ids.mask} \cup {ids.undo[i] : i \in 1 .. Len(ids.undo)}
               \cup {ids.redo[i] : i \in 1 .. Len(ids.redo)}

\* An object that is none of the n - 1 created before it in this handler
\* and none of those referred to, which are numbered below their count.
NewObject(ids, n) == Len(ids.undo) + Len(ids.redo) + n

\* The objects numbered in the order mask, undo stack, redo stack, one
\* number for each object: where no two references are to one object the
\* numbers are the positions.
Renumbered(ids) ==
    LET s == <<ids.mask>> \o ids.undo \o ids.redo
        first(i) == CHOOSE j \in 1 .. i :
                        s[j] = s[i] /\ \A k \in 1 .. j - 1 : s[k] # s[i]
        number(i) == Cardinality({s[j] : j \in 1 .. first(i)}) - 1
    IN  IF Cardinality(Objects(ids)) = 1 + Len(ids.undo) + Len(ids.redo)
        THEN [mask |-> 0,
              undo |-> [i \in 1 .. Len(ids.undo) |-> i],
              redo |-> [i \in 1 .. Len(ids.redo) |-> Len(ids.undo) + i]]
        ELSE [mask |-> number(1),
              undo |-> [i \in 1 .. Len(ids.undo) |-> number(1 + i)],
              redo |-> [i \in 1 .. Len(ids.redo) |->
                           number(1 + Len(ids.undo) + i)]]

\* Image.copy() as it would be if it returned the image itself.
copy_of_itself(obj, new) == obj

\* Image.copy(): of the object obj, the new object new.
copy(obj, new) == new

\* A new mask object made current, then add_undo_step.
ObjectsAfterPush(ids) ==
    LET live == NewObject(ids, 1)
    IN  Renumbered([mask |-> live,
                    undo |-> add_undo_step(ids.undo, copy(live, NewObject(ids, 2))),
                    redo |-> << >>])

\* undo and redo: the stacks move their entries, the mask becomes a copy
\* of the top of the undo stack.
ObjectsAfterUndo(ids) ==
    LET u == undo_step(ids.undo, ids.redo, ids.mask)
    IN  IF u.done
        THEN Renumbered([mask |-> copy(Last(u.undo), NewObject(ids, 1)),
                         undo |-> u.undo, redo |-> u.redo])
        ELSE [ids EXCEPT !.undo = u.undo, !.redo = u.redo]

ObjectsAfterRedo(ids) ==
    LET r == redo_step(ids.undo, ids.redo, ids.mask)
    IN  IF r.done
        THEN Renumbered([mask |-> copy(Last(r.undo), NewObject(ids, 1)),
                         undo |-> r.undo, redo |-> r.redo])
        ELSE [ids EXCEPT !.undo = r.undo, !.redo = r.redo]

\* A new mask object and a history of one copy of it.
ObjectsAfterReset ==
    Renumbered([mask |-> 0, undo |-> <<copy(0, 1)>>, redo |-> << >>])

\* clear_working_image ("Clear result", key w).
clear_working_image ==
    /\ limits.edits > 0 /\ limits.clears > 0
    /\ LET m == NewL(original_image.size, 0)
           img == BlankRGBA(original_image)
           o == update_output_image_preview(original_image, m, img, bg_mode, None)
       IN  /\ working_image' = img
           /\ working_mask' = m
           /\ undo_history_mask' = add_undo_step(undo_history_mask, m)
           /\ redo_history_mask' = << >>
           /\ object_ids' = ObjectsAfterPush(object_ids)
           /\ cached_blurred_shadow' = None
           /\ cached_blur_image' = o.cblur
           /\ output_displayed' = o.out
    /\ limits' = Spend(TRUE)
    /\ cmd_log' = Logged("clear", working_mask, working_mask')
    /\ UNCHANGED <<original_image, _last_shadow_radius, current_blur_radius, bg_mode, exportVars,
                   enable_shadow_var, shadow_radius, shadow_opacity, shadow_x, shadow_y, soften_mask_var, blur_radius_var,
                   show_mask_var, aiVars, viewVars, workerVars, status, delivered>>

\* The tail shared by undo, redo, copy_entire_image and
\* _apply_mask_modification: add_drop_shadow on the new mask, which ends in
\* update_output_image_preview unless putalpha raised.
RecomposePlaced(mask, cache, cblur, enabled, radius, soften, sradius, placed, done_status, raised_status) ==
    LET ds == add_drop_shadow_placed(original_image, mask, cache,
                                     _last_shadow_radius, enabled, radius,
                                     soften, sradius, placed)
        o == update_output_image_preview(original_image, mask, ds.img, bg_mode, cblur)
    IN  /\ working_image' = ds.img
        /\ cached_blurred_shadow' = ds.cache
        /\ _last_shadow_radius' = ds.last
        /\ cached_blur_image' = IF ds.raised THEN cblur ELSE o.cblur
        /\ output_displayed' = IF ds.raised THEN output_displayed ELSE o.out
        /\ status' = IF ds.raised THEN raised_status ELSE done_status

RecomposeSoftened(mask, cache, cblur, enabled, radius, soften, sradius, done_status, raised_status) ==
    RecomposePlaced(mask, cache, cblur, enabled, radius, soften, sradius,
                    <<shadow_opacity, shadow_x, shadow_y>>, done_status, raised_status)

RecomposeWith(mask, cache, cblur, enabled, radius, done_status, raised_status) ==
    RecomposeSoftened(mask, cache, cblur, enabled, radius, soften_mask_var,
                      blur_radius_var, done_status, raised_status)

Recompose(mask, cache, cblur, done_status, raised_status) ==
    RecomposeWith(mask, cache, cblur, enable_shadow_var, shadow_radius,
                  done_status, raised_status)

\* undo (Undo button, Control-z).
undo ==
    /\ LET u == undo_step(undo_history_mask, redo_history_mask, working_mask)
       IN  /\ undo_history_mask' = u.undo
           /\ redo_history_mask' = u.redo
           /\ working_mask' = u.mask
           /\ object_ids' = ObjectsAfterUndo(object_ids)
           /\ IF u.done
              THEN Recompose(u.mask, cached_blurred_shadow,
                             IF bg_mode = "blur"
                             THEN regenerate_smart_blur(original_image, u.mask,
                                                        current_blur_radius)
                             ELSE cached_blur_image,
                             "Undo performed", status)
              ELSE UNCHANGED <<working_image, cached_blurred_shadow,
                               _last_shadow_radius, cached_blur_image,
                               output_displayed, status>>
           /\ cmd_log' = Logged(IF u.done THEN "undo" ELSE "undo_nothing",
                                working_mask, u.mask)
    /\ UNCHANGED <<original_image, current_blur_radius, bg_mode, exportVars, enable_shadow_var,
                   shadow_radius, shadow_opacity, shadow_x, shadow_y, soften_mask_var, blur_radius_var, show_mask_var,
                   aiVars, viewVars, workerVars, limits, delivered>>

\* redo (Redo button, Control-y, Control-Shift-Z).
redo ==
    /\ LET r == redo_step(undo_history_mask, redo_history_mask, working_mask)
       IN  /\ undo_history_mask' = r.undo
           /\ redo_history_mask' = r.redo
           /\ working_mask' = r.mask
           /\ object_ids' = ObjectsAfterRedo(object_ids)
           /\ IF r.done
              THEN Recompose(r.mask, cached_blurred_shadow,
                             IF bg_mode = "blur"
                             THEN regenerate_smart_blur(original_image, r.mask,
                                                        current_blur_radius)
                             ELSE cached_blur_image,
                             "Redo performed", status)
              ELSE /\ status' = "Nothing to Redo"
                   /\ UNCHANGED <<working_image, cached_blurred_shadow,
                                  _last_shadow_radius, cached_blur_image,
                                  output_displayed>>
           /\ cmd_log' = Logged(IF r.done THEN "redo" ELSE "redo_nothing",
                                working_mask, r.mask)
    /\ UNCHANGED <<original_image, current_blur_radius, bg_mode, exportVars, enable_shadow_var,
                   shadow_radius, shadow_opacity, shadow_x, shadow_y, soften_mask_var, blur_radius_var, show_mask_var,
                   aiVars, viewVars, workerVars, limits, delivered>>

\* copy_entire_image ("Copy In->Out", key d).
copy_entire_image ==
    /\ limits.edits > 0
    /\ LET m == NewL(original_image.size, 255)
       IN  /\ working_mask' = m
           /\ undo_history_mask' = add_undo_step(undo_history_mask, m)
           /\ redo_history_mask' = << >>
           /\ object_ids' = ObjectsAfterPush(object_ids)
           /\ Recompose(m, cached_blurred_shadow, cached_blur_image, status, status)
    /\ limits' = Spend(FALSE)
    /\ cmd_log' = Logged("copy_all", working_mask, working_mask')
    /\ UNCHANGED <<original_image, current_blur_radius, bg_mode, exportVars, enable_shadow_var,
                   shadow_radius, shadow_opacity, shadow_x, shadow_y, soften_mask_var, blur_radius_var, show_mask_var,
                   aiVars, viewVars, workerVars, delivered>>

\* ------------------------------------------------------------ paint strokes

\* generate_paint_mode_mask: the strokes drawn into a mask of the size of
\* the current crop.  A stroke <<x1, y1, x2, y2, size>> whitens the pixels
\* its round-capped line of width size / zoom_factor touches.
StrokeTouches(l, p, z) ==
    LET r == DivZoom(l[5], z) \div 2
    IN  /\ IntOf(Min(l[1], l[3]) - r) <= p[1] /\ p[1] <= IntOf(Max(l[1], l[3]) + r)
        /\ IntOf(Min(l[2], l[4]) - r) <= p[2] /\ p[2] <= IntOf(Max(l[2], l[4]) + r)

generate_paint_mode_mask ==
    [size |-> CropSize,
     pix |-> [p \in Pix(CropSize) |->
        IF \E i \in 1 .. Len(lines) : StrokeTouches(lines[i], p, zoom_factor)
        THEN 255 ELSE 0]]

\* --------------------------------------------------------- mask operations

ApplyOperation(operation, a, b) ==
    IF operation = "add" THEN ChopsAdd(a, b) ELSE ChopsSubtract(a, b)

\* _apply_mask_modification without a mask, as it would be if it dropped
\* the redo stack before it returned.
no_mask_warning_dropping_redo ==
    /\ status' = "Warning: No mask generated to add/subtract. Run a model first."
    /\ redo_history_mask' = << >>
    /\ object_ids' = [object_ids EXCEPT !.redo = << >>]
    /\ UNCHANGED <<original_image, working_mask, working_image, undo_history_mask,
                   cached_blurred_shadow, _last_shadow_radius, cached_blur_image,
                   output_displayed, limits, cmd_log>>

\* _apply_mask_modification without a mask: a warning, and nothing else.
no_mask_warning ==
    /\ status' = "Warning: No mask generated to add/subtract. Run a model first."
    /\ UNCHANGED <<docVars, cached_blurred_shadow, _last_shadow_radius,
                   cached_blur_image, output_displayed, limits, cmd_log>>

\* _apply_mask_modification(operation), reading `preview` as
\* self.model_output_mask.  It leaves model_output_mask to its caller.
_apply_mask_modification(operation, preview, name) ==
    LET mask == IF paint_mode THEN Some(generate_paint_mode_mask) ELSE preview
    IN  IF IsNone(mask)
        THEN no_mask_warning
        ELSE IF PasteRaises(Val(mask), ViewBox)
        THEN /\ status' = "Error applying mask"
             /\ UNCHANGED <<docVars, cached_blurred_shadow, _last_shadow_radius,
                            cached_blur_image, output_displayed, limits, cmd_log>>
        ELSE /\ limits.edits > 0
             /\ LET temp_fullsize_mask ==
                        Paste(NewL(working_mask.size, 0), Val(mask), ViewBox)
                    m == ApplyOperation(operation, working_mask, temp_fullsize_mask)
                IN  /\ working_mask' = m
                    /\ undo_history_mask' = add_undo_step(undo_history_mask, m)
                    /\ redo_history_mask' = << >>
                    /\ object_ids' = ObjectsAfterPush(object_ids)
                    /\ Recompose(m, None,
                                 IF bg_mode = "blur"
                                 THEN regenerate_smart_blur(original_image, m,
                                                            current_blur_radius)
                                 ELSE cached_blur_image,
                                 "Mask applied.", "Error applying mask")
                    /\ cmd_log' = Logged(name, working_mask, m)
             /\ limits' = Spend(FALSE)
             /\ UNCHANGED original_image

\* add_to_working_image (Add button, key a).
add_to_working_image ==
    /\ _apply_mask_modification("add", model_output_mask,
                                IF paint_mode THEN "paint_add" ELSE "add")
    /\ UNCHANGED <<current_blur_radius, bg_mode, exportVars, enable_shadow_var, shadow_radius, shadow_opacity, shadow_x, shadow_y,
                   soften_mask_var, blur_radius_var, show_mask_var, aiVars,
                   viewVars, workerVars, delivered>>

\* subtract_from_working_image (Subtract button, key s).
subtract_from_working_image ==
    /\ _apply_mask_modification("subtract", model_output_mask,
                                IF paint_mode THEN "paint_subtract" ELSE "subtract")
    /\ UNCHANGED <<current_blur_radius, bg_mode, exportVars, enable_shadow_var, shadow_radius, shadow_opacity, shadow_x, shadow_y,
                   soften_mask_var, blur_radius_var, show_mask_var, aiVars,
                   viewVars, workerVars, delivered>>

\* The calls of _apply_mask_modification, after the mask is changed and
\* pushed, that compute: an exception of either (a resize to a side of zero
\* pixels, memory) is caught by the handler's except clause.
LaterSteps == {"regenerate_smart_blur", "add_drop_shadow"}

\* _apply_mask_modification(operation) where the paste succeeds and the
\* later step `step` raises: the assignments before that step are made, the
\* ones after it are not, and the except clause reports the error.
\* add_drop_shadow has cut the working image out and noted the radius
\* before it blurs.
_apply_mask_modification_raised(operation, preview, name, step) ==
    LET mask == IF paint_mode THEN Some(generate_paint_mode_mask) ELSE preview
    IN  /\ ~IsNone(mask)
        /\ ~PasteRaises(Val(mask), ViewBox)
        /\ limits.edits > 0
        /\ step = "regenerate_smart_blur" => bg_mode = "blur"
        /\ step = "add_drop_shadow" => enable_shadow_var
        /\ LET temp_fullsize_mask ==
                   Paste(NewL(working_mask.size, 0), Val(mask), ViewBox)
               m == ApplyOperation(operation, working_mask, temp_fullsize_mask)
               blurred == step = "add_drop_shadow" /\ bg_mode = "blur"
               cut == step = "add_drop_shadow"
           IN  /\ working_mask' = m
               /\ undo_history_mask' = add_undo_step(undo_history_mask, m)
               /\ redo_history_mask' = << >>
               /\ object_ids' = ObjectsAfterPush(object_ids)
               /\ cached_blurred_shadow' = None
               /\ cached_blur_image' =
                      IF blurred
                      THEN regenerate_smart_blur(original_image, m, current_blur_radius)
                      ELSE cached_blur_image
               /\ working_image' =
                      IF cut THEN cutout_working_image(original_image, m)
                      ELSE working_image
               /\ _last_shadow_radius' =
                      IF cut THEN Some(shadow_radius) ELSE _last_shadow_radius
               /\ cmd_log' = Logged(name, working_mask, m)
        /\ status' = "Error applying mask"
        /\ limits' = Spend(FALSE)
        /\ UNCHANGED <<original_image, output_displayed>>

\* Add and Subtract where a later step raises.
add_to_working_image_raised(step) ==
    /\ _apply_mask_modification_raised("add", model_output_mask,
                                       IF paint_mode THEN "paint_add" ELSE "add", step)
    /\ UNCHANGED <<current_blur_radius, bg_mode, exportVars, enable_shadow_var,
                   shadow_radius, shadow_opacity, shadow_x, shadow_y,
                   soften_mask_var, blur_radius_var, show_mask_var, aiVars,
                   viewVars, workerVars, delivered>>

subtract_from_working_image_raised(step) ==
    /\ _apply_mask_modification_raised("subtract", model_output_mask,
                                       IF paint_mode THEN "paint_subtract"
                                       ELSE "subtract", step)
    /\ UNCHANGED <<current_blur_radius, bg_mode, exportVars, enable_shadow_var,
                   shadow_radius, shadow_opacity, shadow_x, shadow_y,
                   soften_mask_var, blur_radius_var, show_mask_var, aiVars,
                   viewVars, workerVars, delivered>>

\* clear_visible_area as it would be if it left its white rectangle in
\* model_output_mask.
clear_visible_area_unrestored ==
    /\ _apply_mask_modification("subtract", Some(NewL(CropSize, 255)), "clear_visible")
    /\ model_output_mask' = Some(NewL(CropSize, 255))
    /\ UNCHANGED <<current_blur_radius, bg_mode, exportVars, enable_shadow_var, shadow_radius, shadow_opacity, shadow_x, shadow_y,
                   soften_mask_var, blur_radius_var, show_mask_var, raw_model_mask,
                   raw_sam_logits, encoder_output, sam_active, unified_var, paint_mode, lines,
                   coordinates, viewVars, workerVars, delivered>>

\* clear_visible_area (key v): subtract a white rectangle of the size of
\* the crop, put in model_output_mask for the call; mask_old is the
\* preview mask saved before (an image is truthy, None is not) and
\* restored after.
clear_visible_area ==
    LET mask_old == IF ~IsNone(model_output_mask) THEN model_output_mask ELSE None
    IN  /\ _apply_mask_modification("subtract", Some(NewL(CropSize, 255)), "clear_visible")
        /\ model_output_mask' = mask_old
        /\ UNCHANGED <<current_blur_radius, bg_mode, exportVars, enable_shadow_var, shadow_radius, shadow_opacity, shadow_x, shadow_y,
                       soften_mask_var, blur_radius_var, show_mask_var, raw_model_mask,
                       raw_sam_logits, encoder_output, sam_active, unified_var, paint_mode, lines,
                       coordinates, viewVars, workerVars, delivered>>

\* --------------------------------------------------------- preview sources

\* clear_coord_overlay ("Clear source", key c): drop points, box and
\* strokes, and reset the preview mask to an empty mask of the crop's size.
clear_coord_overlay ==
    /\ lines' = << >>
    /\ coordinates' = << >>
    /\ model_output_mask' = Some(NewL(CropSize, 0))
    /\ UNCHANGED <<docVars, cacheVars, exportVars, raw_model_mask, raw_sam_logits, encoder_output, sam_active,
                   unified_var, paint_mode, viewVars, workerVars, status, limits,
                   cmd_log, delivered>>

\* paint_mode_toggle (Manual Paintbrush button, key p).
paint_mode_toggle ==
    /\ paint_mode' = ~paint_mode
    /\ lines' = << >>
    /\ coordinates' = << >>
    /\ model_output_mask' = Some(NewL(CropSize, 0))
    /\ UNCHANGED <<docVars, cacheVars, exportVars, raw_model_mask, raw_sam_logits, encoder_output, sam_active,
                   unified_var, viewVars, workerVars, status, limits, cmd_log,
                   delivered>>

\* Canvas positions of the mouse events of the model.
EventPoints == {<<12, 37>>, <<62, 37>>}

\* paint_draw_point (ButtonPress-1 in paint mode): a stroke of one point,
\* stored relative to the crop, divided by the zoom factor.
paint_draw_point(ev) ==
    /\ paint_mode
    /\ ~loading_overlay
    /\ Len(lines) < MaxLines
    /\ LET x == paint_point(ev)[1]
           y == paint_point(ev)[2]
       IN  lines' = Append(lines, <<x, y, x, y, PAINT_BRUSH_DIAMETER>>)
    /\ UNCHANGED <<docVars, cacheVars, exportVars, model_output_mask, raw_model_mask,
                   raw_sam_logits, encoder_output, sam_active, unified_var, paint_mode, coordinates, viewVars,
                   workerVars, status, limits, cmd_log, delivered>>

\* ------------------------------------------------------------ view changes

\* update_input_image_preview: crop the source for the given viewport,
\* centre it, and re-render the output canvas (which fills the blur cache
\* on a miss).
update_input_image_preview(vx, vy, z, cw, ch, filter) ==
    LET box == CropBox(vx, vy, z, cw, ch, original_image.size)
        o == update_output_image_preview(original_image, working_mask,
                                         working_image, bg_mode, cached_blur_image)
    IN  /\ orig_image_crop' = [src |-> original_image.name, box |-> box]
        /\ pad' = PadOf(box, z, cw, ch)
        /\ resampling_filter' = filter
        /\ output_displayed' = o.out
        /\ cached_blur_image' = o.cblur

\* The clamp as it would be without its upper limit.
ClampView_lower_only(v, extent, c, z) == Max(0, v)

\* The clamp of do_pan, pan_mouse and zoom: max(0, min(v, extent - canvas / zoom)).
ClampView(v, extent, c, z) == Max(0, Min(v, Px(extent) - DivZoom(c, z)))

\* do_pan(dx, dy), from the arrow keys.
do_pan(dx, dy) ==
    LET vx == ClampView(view_x + dx, original_image.size[1], canvas_w, zoom_factor)
        vy == ClampView(view_y + dy, original_image.size[2], canvas_h, zoom_factor)
    IN  /\ limits.moves > 0
        /\ limits' = Moved
        /\ view_x' = vx
        /\ view_y' = vy
        /\ update_input_image_preview(vx, vy, zoom_factor, canvas_w, canvas_h, "NEAREST")
        /\ after_id' = TRUE
        /\ UNCHANGED <<docVars, cached_blurred_shadow, _last_shadow_radius,
                       current_blur_radius, bg_mode, exportVars, enable_shadow_var, shadow_radius, shadow_opacity, shadow_x, shadow_y,
                       soften_mask_var, blur_radius_var, show_mask_var, aiVars,
                       canvas_w, canvas_h, init_size, zoom_factor, lowest_zoom_factor,
                       min_zoom, pan_step, panning, pan_start, click_start,
                       workerVars, status, cmd_log, delivered>>

pan_left_keyboard == do_pan(-pan_step, 0)
pan_right_keyboard == do_pan(pan_step, 0)
pan_up_keyboard == do_pan(0, -pan_step)
pan_down_keyboard == do_pan(0, pan_step)

\* start_pan_mouse (ButtonPress-2/3 on a canvas), in move mode.
start_pan_mouse(ev) ==
    /\ ~loading_overlay
    /\ pan_start' = ev
    /\ click_start' = ev
    /\ panning' = TRUE
    /\ UNCHANGED <<docVars, cacheVars, exportVars, aiVars, canvas_w, canvas_h, init_size,
                   zoom_factor, lowest_zoom_factor, view_x, view_y, min_zoom,
                   pan_step, orig_image_crop, pad, resampling_filter, after_id, workerVars, status,
                   limits, cmd_log, delivered>>

\* zoom_factor > lowest_zoom_factor + 0.01
ZoomedIn(z, lowest) == RatLt(<<100 * lowest[1] + lowest[2], 100 * lowest[2]>>, z)

\* pan_mouse (B2/B3-Motion): moves the viewport only while panning and
\* zoomed in past the fit level.
pan_mouse(ev) ==
    /\ ~loading_overlay
    /\ limits.moves > 0
    /\ limits' = Moved
    /\ IF panning /\ ZoomedIn(zoom_factor, lowest_zoom_factor)
       THEN LET vx == ClampView(view_x - DivZoom(ev[1] - pan_start[1], zoom_factor),
                                original_image.size[1], canvas_w, zoom_factor)
                vy == ClampView(view_y - DivZoom(ev[2] - pan_start[2], zoom_factor),
                                original_image.size[2], canvas_h, zoom_factor)
            IN  /\ view_x' = vx
                /\ view_y' = vy
                /\ pan_start' = ev
                /\ lines' = << >>
                /\ coordinates' = << >>
                /\ model_output_mask' = None
                /\ update_input_image_preview(vx, vy, zoom_factor, canvas_w, canvas_h,
                                              "NEAREST")
       ELSE UNCHANGED <<view_x, view_y, pan_start, lines, coordinates, model_output_mask,
                        orig_image_crop, pad, resampling_filter, output_displayed, cached_blur_image>>
    /\ UNCHANGED <<docVars, cached_blurred_shadow, _last_shadow_radius,
                   current_blur_radius, bg_mode, exportVars, enable_shadow_var, shadow_radius, shadow_opacity, shadow_x, shadow_y,
                   soften_mask_var, blur_radius_var, show_mask_var, raw_model_mask,
                   raw_sam_logits, encoder_output, sam_active, unified_var, paint_mode, canvas_w,
                   canvas_h, init_size, zoom_factor, lowest_zoom_factor, min_zoom,
                   pan_step, after_id, panning, click_start, workerVars, status,
                   cmd_log, delivered>>

\* zoom as it would be if zooming in did not stop at MAX_ZOOM_FACTOR.
new_zoom_factor_unchecked(z, lowest, up) ==
    IF up
    THEN RatMul(z, DEFAULT_ZOOM_FACTOR)
    ELSE RatMax(RatDiv(z, DEFAULT_ZOOM_FACTOR), lowest)

\* zoom: the zoom factor after one wheel step from z.
new_zoom_factor(z, lowest, up) ==
    LET check_zoom == RatMul(z, DEFAULT_ZOOM_FACTOR)
    IN  IF up
        THEN IF RatLe(check_zoom, <<MAX_ZOOM_FACTOR, 1>>) THEN check_zoom ELSE z
        ELSE RatMax(RatDiv(z, DEFAULT_ZOOM_FACTOR), lowest)

\* Python floats: a product or quotient is rounded to the nearest value of
\* MANT_DIG significant bits, ties to even.  Exponent is floor(log2(n / d))
\* of a fraction that is at least 1.
RECURSIVE Exponent(_, _)
Exponent(n, d) == IF n < 2 * d THEN 0 ELSE 1 + Exponent(n, 2 * d)

Fl(r) ==
    LET s == Exponent(r[1], r[2]) - MANT_DIG + 1
        num == IF s >= 0 THEN r[1] ELSE r[1] * Pow(2, -s)
        den == IF s >= 0 THEN r[2] * Pow(2, s) ELSE r[2]
        q == num \div den
        rem == num % den
        m == IF 2 * rem > den \/ (2 * rem = den /\ q % 2 = 1) THEN q + 1 ELSE q
    IN  IF s >= 0 THEN Rat(m * Pow(2, s), 1) ELSE Rat(m, Pow(2, -s))

\* zoom: the zoom factor after one wheel step from z, as floats compute it.
new_zoom_factor_float(z, lowest, up) ==
    LET step == Fl(DEFAULT_ZOOM_FACTOR)
        check_zoom == Fl(RatMul(z, step))
    IN  IF up
        THEN IF RatLe(check_zoom, <<MAX_ZOOM_FACTOR, 1>>) THEN check_zoom ELSE z
        ELSE RatMax(Fl(RatDiv(z, step)), lowest)

\* The zoom factor through one wheel step of zoom, the steps logged.
zoom_factor_step(up) ==
    /\ Len(cmd_log) < 2 * WheelSteps
    /\ zoom_factor' = new_zoom_factor_float(zoom_factor, lowest_zoom_factor, up)
    /\ cmd_log' = Append(cmd_log, [op |-> IF up THEN "zoom_in" ELSE "zoom_out",
                                   pre |-> zoom_factor, post |-> zoom_factor'])
    /\ UNCHANGED <<docVars, cacheVars, exportVars, aiVars, canvas_w, canvas_h, init_size,
                   lowest_zoom_factor, view_x, view_y, min_zoom, pan_step,
                   orig_image_crop, pad, resampling_filter, after_id, panning, pan_start, click_start,
                   workerVars, status, limits, delivered>>

\* zoom (mouse wheel at canvas position ev; up = TRUE zooms in).
zoom(ev, up) ==
    /\ ~loading_overlay
    /\ limits.moves > 0
    /\ limits' = Moved
    /\ LET mouse_x == zoom_anchor(ev)[1]
           mouse_y == zoom_anchor(ev)[2]
           z == new_zoom_factor(zoom_factor, lowest_zoom_factor, up)
           grows == up /\ z # zoom_factor
           vx == ClampView(mouse_x - DivZoom(ev[1], z), original_image.size[1], canvas_w, z)
           vy == ClampView(mouse_y - DivZoom(ev[2], z), original_image.size[2], canvas_h, z)
           redraw == ~min_zoom \/ grows
       IN  /\ pan_step' = DivZoom(PAN_STEP, zoom_factor)
           /\ zoom_factor' = z
           /\ view_x' = vx
           /\ view_y' = vy
           /\ min_zoom' = IF redraw THEN z = lowest_zoom_factor ELSE min_zoom
           /\ IF redraw
              THEN /\ update_input_image_preview(vx, vy, z, canvas_w, canvas_h, "NEAREST")
                   /\ lines' = << >>
                   /\ coordinates' = << >>
                   /\ model_output_mask' =
                          Some(NewL(BoxSize(CropBox(vx, vy, z, canvas_w, canvas_h,
                                                    original_image.size)), 0))
              ELSE UNCHANGED <<orig_image_crop, pad, resampling_filter, output_displayed,
                               cached_blur_image, lines, coordinates,
                               model_output_mask>>
           /\ after_id' = TRUE
    /\ UNCHANGED <<docVars, cached_blurred_shadow, _last_shadow_radius,
                   current_blur_radius, bg_mode, exportVars, enable_shadow_var, shadow_radius, shadow_opacity, shadow_x, shadow_y,
                   soften_mask_var, blur_radius_var, show_mask_var, raw_model_mask,
                   raw_sam_logits, encoder_output, sam_active, unified_var, paint_mode, canvas_w,
                   canvas_h, init_size, lowest_zoom_factor, panning, pan_start,
                   click_start, workerVars, status, cmd_log, delivered>>

\* update_preview_delayed: the debounced quality re-render.
update_preview_delayed ==
    /\ after_id
    /\ update_input_image_preview(view_x, view_y, zoom_factor, canvas_w, canvas_h, "BOX")
    /\ after_id' = FALSE
    /\ UNCHANGED <<docVars, cached_blurred_shadow, _last_shadow_radius,
                   current_blur_radius, bg_mode, exportVars, enable_shadow_var, shadow_radius, shadow_opacity, shadow_x, shadow_y,
                   soften_mask_var, blur_radius_var, show_mask_var, aiVars, canvas_w,
                   canvas_h, init_size, zoom_factor, lowest_zoom_factor, view_x,
                   view_y, min_zoom, pan_step, panning, pan_start, click_start,
                   workerVars, status, limits, cmd_log, delivered>>

\* setup_image_display as it would be if it kept the mask and its history.
setup_image_display_keeping_mask(img, sz) ==
    LET z == LowestZoom(sz, img.size)
    IN  /\ lowest_zoom_factor' = z
        /\ working_image' = BlankRGBA(img)
        /\ UNCHANGED <<working_mask, undo_history_mask, redo_history_mask, object_ids>>
        /\ zoom_factor' = z
        /\ view_x' = 0
        /\ view_y' = 0
        /\ min_zoom' = TRUE

\* setup_image_display: a blank result for the source img, a fresh
\* history, and the image fitted to a canvas of size sz.
setup_image_display(img, sz) ==
    LET z == LowestZoom(sz, img.size)
        m == NewL(img.size, 0)
    IN  /\ lowest_zoom_factor' = z
        /\ working_image' = BlankRGBA(img)
        /\ working_mask' = m
        /\ undo_history_mask' = <<m>>
        /\ redo_history_mask' = << >>
        /\ object_ids' = ObjectsAfterReset
        /\ zoom_factor' = z
        /\ view_x' = 0
        /\ view_y' = 0
        /\ min_zoom' = TRUE

\* on_resize as it would be if it fitted the image with setup_image_display.
on_resize_setup(sz) ==
    /\ sz # init_size
    /\ limits.moves > 0
    /\ limits' = Moved
    /\ init_size' = sz
    /\ canvas_w' = sz[1]
    /\ canvas_h' = sz[2]
    /\ setup_image_display(original_image, sz)
    /\ LET box == CropBox(0, 0, LowestZoom(sz, original_image.size), sz[1], sz[2],
                          original_image.size)
           o == update_output_image_preview(original_image, working_mask',
                                            working_image', bg_mode, cached_blur_image)
       IN  /\ orig_image_crop' = [src |-> original_image.name, box |-> box]
           /\ pad' = PadOf(box, LowestZoom(sz, original_image.size), sz[1], sz[2])
           /\ resampling_filter' = "BOX"
           /\ output_displayed' = o.out
           /\ cached_blur_image' = o.cblur
    /\ encoder_output' = None
    /\ UNCHANGED <<original_image, cached_blurred_shadow, _last_shadow_radius,
                   current_blur_radius, bg_mode, exportVars, enable_shadow_var, shadow_radius, shadow_opacity, shadow_x, shadow_y,
                   soften_mask_var, blur_radius_var, show_mask_var, model_output_mask,
                   raw_model_mask, raw_sam_logits, sam_active, unified_var, paint_mode,
                   lines, coordinates, pan_step,
                   after_id, panning, pan_start, click_start, workerVars, status,
                   cmd_log, delivered>>

\* on_resize (<Configure> of the root window) to a layout with canvas size
\* sz: fit the image again and reset the viewport.
on_resize(sz) ==
    /\ sz # init_size
    /\ limits.moves > 0
    /\ limits' = Moved
    /\ LET z == LowestZoom(sz, original_image.size)
       IN  /\ init_size' = sz
           /\ canvas_w' = sz[1]
           /\ canvas_h' = sz[2]
           /\ lowest_zoom_factor' = z
           /\ zoom_factor' = z
           /\ view_x' = 0
           /\ view_y' = 0
           /\ min_zoom' = TRUE
           /\ update_input_image_preview(0, 0, z, sz[1], sz[2], "BOX")
    /\ encoder_output' = None
    /\ UNCHANGED <<docVars, cached_blurred_shadow, _last_shadow_radius,
                   current_blur_radius, bg_mode, exportVars, enable_shadow_var, shadow_radius, shadow_opacity, shadow_x, shadow_y,
                   soften_mask_var, blur_radius_var, show_mask_var, model_output_mask,
                   raw_model_mask, raw_sam_logits, sam_active, unified_var, paint_mode,
                   lines, coordinates, pan_step,
                   after_id, panning, pan_start, click_start, workerVars, status,
                   cmd_log, delivered>>

\* ----------------------------------------------------- compositing options

BgModes == {"transparent", "color", "blur"}

\* The Drop Shadow toggle: the button flips enable_shadow_var and calls
\* toggle_shadow_options, which reverts the flip while the alpha channel
\* is shown and otherwise recomposes.
toggle_shadow_options ==
    /\ ~loading_overlay
    /\ IF show_mask_var
       THEN /\ enable_shadow_var' = FALSE
            /\ UNCHANGED <<working_image, cached_blurred_shadow, _last_shadow_radius,
                           cached_blur_image, output_displayed, status>>
       ELSE /\ enable_shadow_var' = ~enable_shadow_var
            /\ RecomposeWith(working_mask, cached_blurred_shadow, cached_blur_image,
                             ~enable_shadow_var, shadow_radius, status, status)
    /\ UNCHANGED <<original_image, working_mask, undo_history_mask,
                   redo_history_mask, object_ids, current_blur_radius, bg_mode, exportVars, shadow_radius, shadow_opacity, shadow_x, shadow_y,
                   soften_mask_var, blur_radius_var, show_mask_var, aiVars, viewVars,
                   workerVars, limits, cmd_log, delivered>>

\* The shadow "Blur" slider moved to r: its callback is add_drop_shadow.
shadow_radius_slider(r) ==
    /\ ~loading_overlay
    /\ enable_shadow_var
    /\ r # shadow_radius
    /\ shadow_radius' = r
    /\ RecomposeWith(working_mask, cached_blurred_shadow, cached_blur_image,
                     enable_shadow_var, r, status, status)
    /\ UNCHANGED <<original_image, working_mask, undo_history_mask,
                   redo_history_mask, object_ids, current_blur_radius, bg_mode, exportVars,
                   enable_shadow_var, shadow_opacity, shadow_x, shadow_y, soften_mask_var, blur_radius_var, show_mask_var,
                   aiVars, viewVars, workerVars, limits, cmd_log, delivered>>

\* Values the shadow "Opac" slider (in hundredths) and the "X" and "Y"
\* sliders of the model can be set to.
ShadowOpacities == {50, 80}
ShadowOffsets == {0, 50}

\* The shadow "Opac", "X" and "Y" sliders moved: the callback of each is
\* add_drop_shadow, which reads all three.
shadow_opacity_slider(o) ==
    /\ ~loading_overlay
    /\ enable_shadow_var
    /\ o # shadow_opacity
    /\ shadow_opacity' = o
    /\ RecomposePlaced(working_mask, cached_blurred_shadow, cached_blur_image,
                       enable_shadow_var, shadow_radius, soften_mask_var,
                       blur_radius_var, <<o, shadow_x, shadow_y>>, status, status)
    /\ UNCHANGED <<original_image, working_mask, undo_history_mask,
                   redo_history_mask, object_ids, current_blur_radius, bg_mode, exportVars,
                   enable_shadow_var, shadow_radius, shadow_x, shadow_y,
                   soften_mask_var, blur_radius_var, show_mask_var, aiVars,
                   viewVars, workerVars, limits, cmd_log, delivered>>

shadow_x_slider(x) ==
    /\ ~loading_overlay
    /\ enable_shadow_var
    /\ x # shadow_x
    /\ shadow_x' = x
    /\ RecomposePlaced(working_mask, cached_blurred_shadow, cached_blur_image,
                       enable_shadow_var, shadow_radius, soften_mask_var,
                       blur_radius_var, <<shadow_opacity, x, shadow_y>>, status, status)
    /\ UNCHANGED <<original_image, working_mask, undo_history_mask,
                   redo_history_mask, object_ids, current_blur_radius, bg_mode, exportVars,
                   enable_shadow_var, shadow_radius, shadow_opacity, shadow_y,
                   soften_mask_var, blur_radius_var, show_mask_var, aiVars,
                   viewVars, workerVars, limits, cmd_log, delivered>>

shadow_y_slider(y) ==
    /\ ~loading_overlay
    /\ enable_shadow_var
    /\ y # shadow_y
    /\ shadow_y' = y
    /\ RecomposePlaced(working_mask, cached_blurred_shadow, cached_blur_image,
                       enable_shadow_var, shadow_radius, soften_mask_var,
                       blur_radius_var, <<shadow_opacity, shadow_x, y>>, status, status)
    /\ UNCHANGED <<original_image, working_mask, undo_history_mask,
                   redo_history_mask, object_ids, current_blur_radius, bg_mode, exportVars,
                   enable_shadow_var, shadow_radius, shadow_opacity, shadow_x,
                   soften_mask_var, blur_radius_var, show_mask_var, aiVars,
                   viewVars, workerVars, limits, cmd_log, delivered>>

\* toggle_soften_options (the Soften Edges toggle): refused while the
\* alpha channel is on view, otherwise flipped and recomposed.
toggle_soften_options ==
    /\ ~loading_overlay
    /\ IF show_mask_var
       THEN /\ soften_mask_var' = FALSE
            /\ UNCHANGED <<working_image, cached_blurred_shadow, _last_shadow_radius,
                           cached_blur_image, output_displayed, status>>
       ELSE /\ soften_mask_var' = ~soften_mask_var
            /\ RecomposeSoftened(working_mask, cached_blurred_shadow,
                                 cached_blur_image, enable_shadow_var, shadow_radius,
                                 ~soften_mask_var, blur_radius_var, status, status)
    /\ UNCHANGED <<original_image, working_mask, undo_history_mask,
                   redo_history_mask, object_ids, current_blur_radius, bg_mode, exportVars, enable_shadow_var,
                   shadow_radius, shadow_opacity, shadow_x, shadow_y, blur_radius_var, show_mask_var, aiVars, viewVars,
                   workerVars, limits, cmd_log, delivered>>

\* Values the soften "Blur" slider of the model can be set to.
SoftenRadii == {0, 4}

\* update_soften_label(val): the soften slider moved to val.
update_soften_label(val) ==
    /\ ~loading_overlay
    /\ soften_mask_var
    /\ val # blur_radius_var
    /\ blur_radius_var' = val
    /\ RecomposeSoftened(working_mask, cached_blurred_shadow, cached_blur_image,
                         enable_shadow_var, shadow_radius, soften_mask_var, val,
                         status, status)
    /\ UNCHANGED <<original_image, working_mask, undo_history_mask,
                   redo_history_mask, object_ids, current_blur_radius, bg_mode, exportVars, enable_shadow_var,
                   shadow_radius, shadow_opacity, shadow_x, shadow_y, soften_mask_var, show_mask_var, aiVars, viewVars,
                   workerVars, limits, cmd_log, delivered>>

\* on_alpha_channel_toggle (the Alpha Channel toggle): re-render the output
\* with the toggle flipped; switched on, it switches Shadow and Soften
\* Edges off.
on_alpha_channel_toggle ==
    LET o == output_preview(original_image, working_mask, working_image, bg_mode,
                            cached_blur_image, ~show_mask_var)
    IN  /\ ~loading_overlay
        /\ show_mask_var' = ~show_mask_var
        /\ output_displayed' = o.out
        /\ cached_blur_image' = o.cblur
        /\ enable_shadow_var' = (show_mask_var /\ enable_shadow_var)
        /\ soften_mask_var' = (show_mask_var /\ soften_mask_var)
        /\ UNCHANGED <<docVars, cached_blurred_shadow, _last_shadow_radius,
                       current_blur_radius, bg_mode, exportVars, shadow_radius, shadow_opacity, shadow_x, shadow_y, blur_radius_var,
                       aiVars, viewVars, workerVars, status, limits, cmd_log,
                       delivered>>

\* set_bg_mode(mode): the Transparent / Color / Blur buttons.
set_bg_mode(mode) ==
    /\ ~loading_overlay
    /\ bg_mode' = mode
    /\ LET cb == IF mode = "blur" /\ IsNone(cached_blur_image)
                 THEN regenerate_smart_blur(original_image, working_mask,
                                            current_blur_radius)
                 ELSE cached_blur_image
           o == update_output_image_preview(original_image, working_mask,
                                            working_image, mode, cb)
       IN  /\ cached_blur_image' = o.cblur
           /\ output_displayed' = o.out
    /\ UNCHANGED <<docVars, cached_blurred_shadow, _last_shadow_radius,
                   current_blur_radius, enable_shadow_var, shadow_radius, shadow_opacity, shadow_x, shadow_y,
                   soften_mask_var, blur_radius_var, show_mask_var, aiVars, viewVars,
                   workerVars, status, exportVars, limits, cmd_log, delivered>>

\* on_blur_slider_change(val): the background blur slider, shown in blur mode.
on_blur_slider_change(val) ==
    /\ ~loading_overlay
    /\ bg_mode = "blur"
    /\ val # current_blur_radius
    /\ current_blur_radius' = val
    /\ LET cb == regenerate_smart_blur(original_image, working_mask, val)
           o == update_output_image_preview(original_image, working_mask,
                                            working_image, bg_mode, cb)
       IN  /\ cached_blur_image' = o.cblur
           /\ output_displayed' = o.out
    /\ UNCHANGED <<docVars, cached_blurred_shadow, _last_shadow_radius, bg_mode, exportVars,
                   enable_shadow_var, shadow_radius, shadow_opacity, shadow_x, shadow_y, soften_mask_var, blur_radius_var,
                   show_mask_var, aiVars, viewVars, workerVars, status, limits,
                   cmd_log, delivered>>

\* ------------------------------------------------------------------ export

ExportFormats == {"png", "jpg", "webp"}

\* set_export_format(fmt): the PNG / JPG / WEBP buttons.
set_export_format(fmt) ==
    /\ export_format' = fmt
    /\ UNCHANGED <<docVars, cacheVars, aiVars, viewVars, workerVars, status,
                   saved_file, limits, cmd_log, delivered>>

\* Image.open keeps the alpha channel of a file: the second pixel of b.png
\* is transparent, every other pixel of the images is opaque.
SourceAlpha(img) ==
    [p \in Pix(img.size) |-> IF img.name = "b.png" /\ p[1] = 1 THEN 0 ELSE 255]

\* validate_export_config: FALSE on the "JPG + Transparent Background"
\* conflict, which it reports in the status line.
validate_export_config == ~(export_format = "jpg" /\ bg_mode = "transparent")

\* apply_background_color as it would be if it returned the cut-out as it is
\* in every mode.
apply_background_color_none(img, cblur) ==
    [fg |-> img, mode |-> "transparent", bg |-> None]

\* apply_background_color(img): the cut-out over the blurred background,
\* over the custom colour, or as it is.
apply_background_color(img, cblur) ==
    [fg |-> img, mode |-> bg_mode, bg |-> IF bg_mode = "blur" THEN cblur ELSE None]

\* The part of a save after the dialogs: add_drop_shadow ("Finalize composite
\* image"), apply_background_color, the white background under a JPG chosen
\* in transparent mode (Save As only), and the file.  An exception of
\* add_drop_shadow leaves the handler before anything is written.
WriteFile(fmt, white, done_status) ==
    LET ds == add_drop_shadow(original_image, working_mask, cached_blurred_shadow,
                              _last_shadow_radius, enable_shadow_var, shadow_radius)
    IN  /\ Recompose(working_mask, cached_blurred_shadow, cached_blur_image,
                     done_status, status)
        /\ saved_file' =
               IF ds.raised THEN saved_file
               ELSE Some([image |-> apply_background_color(ds.img, cached_blur_image'),
                          format |-> fmt, white |-> white])

\* quick_save_automatic (QUICK EXPORT button, Alt-q).
quick_save_automatic ==
    /\ IF ~validate_export_config
       THEN /\ status' = "Error: JPG format does not support transparency."
            /\ UNCHANGED <<working_image, cached_blurred_shadow, _last_shadow_radius,
                           cached_blur_image, output_displayed, saved_file>>
       ELSE WriteFile(export_format, FALSE, "Auto-saved")
    /\ UNCHANGED <<original_image, working_mask, undo_history_mask,
                   redo_history_mask, object_ids, current_blur_radius, bg_mode, enable_shadow_var,
                   shadow_radius, shadow_opacity, shadow_x, shadow_y, soften_mask_var, blur_radius_var, show_mask_var,
                   aiVars, viewVars, workerVars, export_format, limits, cmd_log,
                   delivered>>

\* What the user does with the "Save as" dialog: cancel it, or name a file
\* with one of the three extensions.
SaveAsChoices == {"cancel", "png", "jpg", "webp"}

\* save_as_image (Save As... button, Control-s).  The warning about the
\* white background is replaced by "Saved to ..." before the handler returns.
save_as_image(choice) ==
    /\ IF ~validate_export_config
       THEN /\ status' = "Error: JPG format does not support transparency."
            /\ UNCHANGED <<working_image, cached_blurred_shadow, _last_shadow_radius,
                           cached_blur_image, output_displayed, saved_file>>
       ELSE IF choice = "cancel"
       THEN UNCHANGED <<working_image, cached_blurred_shadow, _last_shadow_radius,
                        cached_blur_image, output_displayed, saved_file, status>>
       ELSE WriteFile(choice, choice = "jpg" /\ bg_mode = "transparent", "Saved to")
    /\ UNCHANGED <<original_image, working_mask, undo_history_mask,
                   redo_history_mask, object_ids, current_blur_radius, bg_mode, enable_shadow_var,
                   shadow_radius, shadow_opacity, shadow_x, shadow_y, soften_mask_var, blur_radius_var, show_mask_var,
                   aiVars, viewVars, workerVars, export_format, limits, cmd_log,
                   delivered>>

\* One pixel of a written image: the weight of the source pixel in it (the
\* alpha of the cut-out, which is the mask times the alpha of the source),
\* the soften radius and shadow the cut-out carries, and what lies under
\* the cut-out where it is not opaque.
ExportedPixel(orig, file, p) ==
    LET cut == file.image.fg
        a == (cut.alpha.mask.pix[p] * SourceAlpha(orig)[p]) \div 255
    IN  [source |-> a, soften |-> cut.alpha.soften,
         shadow |-> a < 255 /\ ~IsNone(cut.shadow),
         under |-> IF a = 255 THEN "nothing"
                   ELSE IF file.white THEN "white" ELSE file.image.mode]

\* The same pixel of the source image.
SourcePixel(orig, p) ==
    [source |-> SourceAlpha(orig)[p], soften |-> 0, shadow |-> FALSE,
     under |-> IF SourceAlpha(orig)[p] = 255 THEN "nothing" ELSE "transparent"]

\* ------------------------------------------------------------ worker tasks

\* start_threaded_task: a fresh queue replaces self.result_queue, a worker
\* thread starts, and a poll of _monitor_thread with the task's callbacks
\* is scheduled.
start_threaded_task(kind) ==
    /\ next_task <= MaxTasks
    /\ queues' = Append(queues, << >>)
    /\ result_queue' = Len(queues) + 1
    /\ workers' = workers \cup {[task |-> next_task, kind |-> kind]}
    /\ monitors' = monitors \cup {[task |-> next_task, kind |-> kind]}
    /\ next_task' = next_task + 1

\* The raw output of a whole-image model for a crop: a grey-level mask of
\* the crop's size, its levels by column.  The model rates a.png at
\* levels that are thresholds of the slider.
InferenceLevels(crop) ==
    IF crop.src = "a.png" THEN <<118, 58, 34>> ELSE <<200, 60, 60>>

InferenceMask(crop) ==
    [size |-> BoxSize(crop.box),
     pix |-> [p \in Pix(BoxSize(crop.box)) |-> InferenceLevels(crop)[p[1] + 1]]]

\* calculate_sam_embedding_headless: the encoder run on self.original_image
\* as it is at that moment, warped to the encoder's fixed input size; the
\* embedding is named by the image it was computed from.
calculate_sam_embedding_headless ==
    [image |-> original_image.name, input_size |-> <<1024, 684>>]

\* What the target function leaves in self.encoder_output: heavy_task of
\* activate_sam_mode computes the embedding once, when there is none (the
\* SAM model of the combo box is loaded at most once, before any
\* embedding exists, so _initialise_sam_model_headless discards nothing).
WorkerEmbedding(w, outcome) ==
    IF w.kind = "sam" /\ outcome = "success" /\ IsNone(encoder_output)
    THEN Some(calculate_sam_embedding_headless)
    ELSE encoder_output

\* What a worker's target function returns: heavy_lifting of
\* run_whole_image_model reads self.orig_image_crop while it runs (the
\* result carries the crop it was computed from), heavy_task of activate_sam_mode returns "Ready",
\* heavy_load of load_selected_models "Done", task of process_import_paths
\* the thumbnails.
WorkerResult(w) ==
    IF w.kind = "infer"
    THEN [kind |-> "mask", mask |-> InferenceMask(orig_image_crop),
          crop |-> orig_image_crop]
    ELSE IF w.kind = "sam" THEN [kind |-> "ready"]
    ELSE IF w.kind = "load" THEN [kind |-> "done"]
    ELSE [kind |-> "thumbnails"]

\* worker: the target function returned or raised, and the outcome is put
\* on the queue self.result_queue names at that moment.
worker(w, outcome) ==
    /\ w \in workers
    /\ workers' = workers \ {w}
    /\ queues' = [queues EXCEPT ![result_queue] =
                      Append(@, [status |-> outcome, task |-> w.task,
                                 payload |-> IF outcome = "success"
                                             THEN WorkerResult(w)
                                             ELSE [kind |-> "exception"]])]
    /\ encoder_output' = WorkerEmbedding(w, outcome)
    /\ UNCHANGED <<docVars, cacheVars, exportVars, model_output_mask, raw_model_mask,
                   raw_sam_logits, sam_active, unified_var, paint_mode, lines,
                   coordinates, viewVars, loading_overlay,
                   result_queue, monitors, next_task, whole_image_button, status,
                   limits, cmd_log, delivered>>

\* The whole slider percentages at which 10 + (1.0 - val / 100.0) * 240,
\* computed in IEEE doubles as Python does, falls one unit in the last
\* place short of the whole number 10 + 2.4 * (100 - val); at every other
\* whole percentage the doubles truncate to the floor of the exact value.
FloatShortfall == {55, 80, 90}

\* The threshold as it would be if it rose with the slider.
WholeThreshold_rising(val) == 10 + (val * 240) \div 100

\* on_unified_slider_change for a whole-image mask: the slider percentage
\* mapped to a grey level between 10 and 250,
\* int(min_thresh + t * (max_thresh - min_thresh)) with t = 1.0 - val / 100.0.
WholeThreshold(val) ==
    LET exact == 10 + ((100 - val) * 240) \div 100
    IN  IF val \in FloatShortfall THEN exact - 1 ELSE exact

\* update_mask_threshold
update_mask_threshold(raw, threshold) ==
    [raw EXCEPT !.pix = [p \in Pix(raw.size) |->
                             IF raw.pix[p] > threshold THEN 255 ELSE 0]]

\* run_whole_image_model (the AUTO-DETECT SUBJECT button).
run_whole_image_model ==
    /\ ~loading_overlay
    /\ whole_image_button = "normal"
    /\ IF paint_mode
       THEN UNCHANGED <<aiVars, workerVars>>
       ELSE /\ sam_active' = FALSE
            /\ lines' = << >>
            /\ coordinates' = << >>
            /\ model_output_mask' = Some(NewL(CropSize, 0))
            /\ raw_sam_logits' = None
            /\ unified_var' = 50
            /\ loading_overlay' = TRUE
            /\ whole_image_button' = "disabled"
            /\ start_threaded_task("infer")
            /\ UNCHANGED <<raw_model_mask, encoder_output, paint_mode>>
    /\ cmd_log' = IF paint_mode THEN cmd_log
                  ELSE Logged("request",
                              Snapshot(working_mask, undo_history_mask, redo_history_mask,
                                       model_output_mask, raw_model_mask, raw_sam_logits),
                              Snapshot(working_mask, undo_history_mask, redo_history_mask,
                                       model_output_mask', raw_model_mask', raw_sam_logits'))
    /\ UNCHANGED <<docVars, cacheVars, exportVars, viewVars, status, limits,
                   delivered>>

\* ------------------------------------------------------- threshold slider

\* Positions of the threshold slider (0 to 100).
SliderValues == {0, 50, 100}

\* on_unified_slider_change in SAM mode: the slider percentage mapped to a
\* logit between -3.0 and 2.0, in quarters of a logit.
SamThreshold(val) == -12 + ((100 - val) * 20) \div 100

\* sam_calculate_mask(original_image, ..., coordinates, labels): the raw
\* logits over the whole image, in quarters of a logit; high on the pixel
\* under a positive point, middling next to it, low elsewhere and under a
\* negative point.
sam_calculate_mask(img, coords) ==
    LET Holds(c, p) == /\ Px(p[1]) <= c[1] /\ c[1] < Px(p[1] + 1)
                       /\ Px(p[2]) <= c[2] /\ c[2] < Px(p[2] + 1)
        Idx == 1 .. Len(coords)
        At(p, label) == \E i \in Idx : coords[i][3] = label /\ Holds(coords[i], p)
        Near(p) == \E q \in Pix(img.size) :
                       Abs(q[1] - p[1]) + Abs(q[2] - p[2]) = 1 /\ At(q, 1)
    IN  [size |-> img.size,
         pix |-> [p \in Pix(img.size) |->
                     IF At(p, 0) THEN -12
                     ELSE IF At(p, 1) THEN 12
                     ELSE IF Near(p) THEN 0
                     ELSE -8]]

\* Image.crop(box): the region, with 0 where it reaches past the image.
Crop(im, box) ==
    [size |-> BoxSize(box),
     pix |-> [q \in Pix(BoxSize(box)) |->
                 LET p == <<q[1] + box[1], q[2] + box[2]>>
                 IN  IF p \in Pix(im.size) THEN im.pix[p] ELSE 0]]

\* update_sam_threshold: the logits above the threshold, cropped to the
\* viewport.
update_sam_threshold(logits, threshold) ==
    Crop([logits EXCEPT !.pix = [p \in Pix(logits.size) |->
                                    IF logits.pix[p] > threshold THEN 255 ELSE 0]],
         ViewBox)

\* The preview mask on_unified_slider_change(val) leaves, given the mode,
\* the raw outputs and the preview mask it finds.
PreviewAt(val, sam, raw_mask, raw_logits, preview) ==
    IF sam
    THEN IF IsNone(raw_logits) THEN preview
         ELSE Some(update_sam_threshold(Val(raw_logits), SamThreshold(val)))
    ELSE IF IsNone(raw_mask) \/ Val(raw_mask).kind # "mask" THEN preview
         ELSE Some(update_mask_threshold(Val(raw_mask).mask, WholeThreshold(val)))

\* on_unified_slider_change as it would be if it dropped the raw outputs
\* once the preview is cut.
on_unified_slider_change_consuming(val) ==
    /\ ~loading_overlay
    /\ unified_var' = val
    /\ model_output_mask' = PreviewAt(val, sam_active, raw_model_mask,
                                      raw_sam_logits, model_output_mask)
    /\ raw_model_mask' = None
    /\ raw_sam_logits' = None
    /\ UNCHANGED <<docVars, cacheVars, exportVars, encoder_output, sam_active, paint_mode, lines, coordinates,
                   viewVars, workerVars, status, limits, cmd_log, delivered>>

\* slider_callback(val) of the threshold slider: unified_var.set(val) and
\* on_unified_slider_change(val).
on_unified_slider_change(val) ==
    /\ ~loading_overlay
    /\ unified_var' = val
    /\ model_output_mask' = PreviewAt(val, sam_active, raw_model_mask,
                                      raw_sam_logits, model_output_mask)
    /\ UNCHANGED <<docVars, cacheVars, exportVars, raw_model_mask, raw_sam_logits, encoder_output, sam_active,
                   paint_mode, lines, coordinates, viewVars, workerVars, status,
                   limits, cmd_log, delivered>>

\* load_selected_models (the Pre Load Models button): the models loaded by
\* a worker task under the overlay.
load_selected_models ==
    /\ ~loading_overlay
    /\ loading_overlay' = TRUE
    /\ start_threaded_task("load")
    /\ cmd_log' = Logged("request",
                         Snapshot(working_mask, undo_history_mask, redo_history_mask,
                                  model_output_mask, raw_model_mask, raw_sam_logits),
                         Snapshot(working_mask, undo_history_mask, redo_history_mask,
                                  model_output_mask, raw_model_mask, raw_sam_logits))
    /\ UNCHANGED <<docVars, cacheVars, exportVars, aiVars, viewVars, whole_image_button,
                   status, limits, delivered>>

\* activate_sam_mode (the MANUAL DETECTION button): SAM mode on, slider
\* back to 50, an empty preview, and the model loaded by a worker task
\* under the overlay.
activate_sam_mode ==
    /\ ~loading_overlay
    /\ raw_model_mask' = None
    /\ sam_active' = TRUE
    /\ unified_var' = 50
    /\ lines' = << >>
    /\ coordinates' = << >>
    /\ model_output_mask' = Some(NewL(CropSize, 0))
    /\ loading_overlay' = TRUE
    /\ start_threaded_task("sam")
    /\ cmd_log' = Logged("request",
                         Snapshot(working_mask, undo_history_mask, redo_history_mask,
                                  model_output_mask, raw_model_mask, raw_sam_logits),
                         Snapshot(working_mask, undo_history_mask, redo_history_mask,
                                  model_output_mask', raw_model_mask', raw_sam_logits))
    /\ UNCHANGED <<docVars, cacheVars, exportVars, raw_sam_logits, encoder_output, paint_mode, viewVars,
                   whole_image_button, status, limits, delivered>>

\* generate_sam_mask(event): a point prompt at canvas position ev, positive
\* for button 1 and negative otherwise, then inference and the preview at
\* the current slider position.
generate_sam_mask(ev, num) ==
    LET x == sam_point(ev)[1]
        y == sam_point(ev)[2]
        coords == Append(coordinates, <<x, y, IF num = 1 THEN 1 ELSE 0>>)
        logits == sam_calculate_mask(original_image, coords)
    IN  /\ coordinates' = coords
        /\ encoder_output' = IF IsNone(encoder_output)
                             THEN Some(calculate_sam_embedding_headless)
                             ELSE encoder_output
        /\ raw_sam_logits' = Some(logits)
        /\ raw_model_mask' = None
        /\ model_output_mask' = PreviewAt(unified_var, sam_active, None,
                                          Some(logits), model_output_mask)

\* Bound on the point prompts of one SAM session.
MaxPoints == 2

\* end_box (ButtonRelease-1 on a canvas, no box drawn): a positive point
\* in SAM mode, the red cross otherwise.
end_box(ev) ==
    /\ ~loading_overlay
    /\ ~paint_mode
    /\ Len(coordinates) < MaxPoints
    /\ IF sam_active
       THEN generate_sam_mask(ev, 1)
       ELSE UNCHANGED <<coordinates, raw_sam_logits, encoder_output, raw_model_mask,
                        model_output_mask>>
    /\ UNCHANGED <<docVars, cacheVars, exportVars, sam_active, unified_var, paint_mode, lines,
                   viewVars, workerVars, status, limits, cmd_log, delivered>>

\* end_pan_mouse (ButtonRelease-2/3 on a canvas): a static click with
\* button 3 is a negative point in SAM mode and nothing otherwise, any
\* other release after a pan re-renders.
end_pan_mouse(ev, num) ==
    /\ ~loading_overlay
    /\ panning' = FALSE
    /\ LET is_static_click == /\ Abs(ev[1] - click_start[1]) < 5
                              /\ Abs(ev[2] - click_start[2]) < 5
       IN  IF is_static_click /\ num = 3
           THEN /\ IF sam_active
                   THEN /\ Len(coordinates) < MaxPoints
                        /\ generate_sam_mask(ev, num)
                   ELSE UNCHANGED <<coordinates, raw_sam_logits, encoder_output, raw_model_mask,
                                    model_output_mask>>
                /\ UNCHANGED <<orig_image_crop, pad, resampling_filter, output_displayed,
                               cached_blur_image>>
           ELSE /\ IF panning
                   THEN update_input_image_preview(view_x, view_y, zoom_factor,
                                                   canvas_w, canvas_h, "BOX")
                   ELSE UNCHANGED <<orig_image_crop, pad, resampling_filter, output_displayed,
                                    cached_blur_image>>
                /\ UNCHANGED <<coordinates, raw_sam_logits, encoder_output, raw_model_mask,
                               model_output_mask>>
    /\ UNCHANGED <<docVars, cached_blurred_shadow, _last_shadow_radius,
                   current_blur_radius, bg_mode, exportVars, enable_shadow_var, shadow_radius, shadow_opacity, shadow_x, shadow_y,
                   soften_mask_var, blur_radius_var, show_mask_var, sam_active,
                   unified_var, paint_mode, lines, canvas_w, canvas_h, init_size,
                   zoom_factor, lowest_zoom_factor, view_x, view_y, min_zoom,
                   pan_step, after_id, pan_start, click_start, workerVars, status,
                   limits, cmd_log, delivered>>

\* Numbers of files in one import.
ImportSizes == {1, 4}

\* process_import_paths(path_list) with n paths (Import Images, Import
\* Folder, or a drop): the overlay is shown for four files or more.
process_import_paths(n) ==
    /\ ~loading_overlay
    /\ loading_overlay' = (n >= 4)
    /\ start_threaded_task("import")
    /\ UNCHANGED <<docVars, cacheVars, exportVars, aiVars, viewVars, whole_image_button,
                   status, limits, cmd_log, delivered>>

\* initialise_new_image, after load_image_path has made img the source:
\* setup_image_display, a first render of both canvases, an empty preview
\* mask, and the AI state reset.
initialise_new_image(img) ==
    LET sz == <<canvas_w, canvas_h>>
        z == LowestZoom(sz, img.size)
        box == CropBox(0, 0, z, canvas_w, canvas_h, img.size)
        o == update_output_image_preview(img, NewL(img.size, 0), BlankRGBA(img),
                                         bg_mode, None)
    IN  /\ original_image' = img
        /\ setup_image_display(img, sz)
        /\ orig_image_crop' = [src |-> img.name, box |-> box]
        /\ pad' = PadOf(box, z, canvas_w, canvas_h)
        /\ resampling_filter' = "BOX"
        /\ output_displayed' = o.out
        /\ cached_blur_image' = o.cblur
        /\ lines' = << >>
        /\ coordinates' = << >>
        /\ model_output_mask' = Some(NewL(BoxSize(box), 0))
        /\ sam_active' = FALSE
        /\ raw_model_mask' = None
        /\ raw_sam_logits' = None
        /\ encoder_output' = None

\* on_drop of one image file on the main window: add it to the gallery
\* (a worker task, without overlay) and load it into the editor.
on_drop(img) ==
    /\ ~loading_overlay
    /\ start_threaded_task("import")
    /\ initialise_new_image(img)
    /\ status' = "Loaded & Added"
    /\ cmd_log' = << >>
    /\ UNCHANGED <<cached_blurred_shadow, _last_shadow_radius, current_blur_radius,
                   bg_mode, exportVars, enable_shadow_var, shadow_radius, shadow_opacity, shadow_x, shadow_y, soften_mask_var,
                   blur_radius_var, show_mask_var, unified_var, paint_mode, canvas_w,
                   canvas_h, init_size, pan_step, after_id, panning, pan_start,
                   click_start, loading_overlay, whole_image_button, limits,
                   delivered>>

\* reset_all (Reset Workpage button, key r): the overlays and the preview
\* cleared for the crop on display, the caches dropped, the AI state reset,
\* the placeholder as the source, a blank document, and the first render.
reset_all ==
    LET img == PLACEHOLDER
        sz == <<canvas_w, canvas_h>>
        z == LowestZoom(sz, img.size)
        box == CropBox(0, 0, z, canvas_w, canvas_h, img.size)
        o == update_output_image_preview(img, NewL(img.size, 0), BlankRGBA(img),
                                         bg_mode, None)
    IN  /\ coordinates' = << >>
        /\ lines' = << >>
        /\ model_output_mask' = Some(NewL(CropSize, 0))
        /\ cached_blurred_shadow' = None
        /\ sam_active' = FALSE
        /\ raw_model_mask' = None
        /\ raw_sam_logits' = None
        /\ original_image' = img
        /\ whole_image_button' = "normal"
        /\ setup_image_display(img, sz)
        /\ orig_image_crop' = [src |-> img.name, box |-> box]
        /\ pad' = PadOf(box, z, canvas_w, canvas_h)
        /\ resampling_filter' = "BOX"
        /\ output_displayed' = o.out
        /\ cached_blur_image' = o.cblur
        /\ status' = "Workpage has been reset."
        /\ cmd_log' = << >>
        /\ UNCHANGED <<_last_shadow_radius, current_blur_radius, bg_mode, exportVars,
                       enable_shadow_var, shadow_radius, shadow_opacity, shadow_x, shadow_y, soften_mask_var,
                       blur_radius_var, show_mask_var, unified_var, paint_mode,
                       encoder_output, canvas_w, canvas_h, init_size, pan_step,
                       after_id, panning, pan_start, click_start, loading_overlay,
                       result_queue, queues, workers, monitors, next_task, limits,
                       delivered>>

\* _monitor_thread(callback_func, error_callback) of task m: poll the
\* queue self.result_queue names now; on a result hide the overlay and call
\* back, otherwise poll again in 100 ms.
_monitor_thread(m) ==
    /\ m \in monitors
    /\ IF queues[result_queue] = << >>
       THEN UNCHANGED <<aiVars, workerVars, status, delivered>>
       ELSE LET got == Head(queues[result_queue])
                ok == got.status = "success"
                is_mask == got.payload.kind = "mask"
            IN  /\ queues' = [queues EXCEPT ![result_queue] = Tail(@)]
                /\ monitors' = monitors \ {m}
                /\ loading_overlay' = FALSE
                /\ delivered' = delivered \cup
                       {[callback |-> m.task, result |-> got.task, ok |-> ok,
                         newest |-> next_task - 1]}
                /\ IF m.kind = "infer"
                   THEN \* on_complete(result_mask) / on_fail(err)
                        /\ whole_image_button' = "normal"
                        /\ raw_model_mask' = IF ok THEN Some(got.payload)
                                             ELSE raw_model_mask
                        /\ model_output_mask' =
                               IF ok
                               THEN PreviewAt(unified_var, sam_active, Some(got.payload),
                                              raw_sam_logits, model_output_mask)
                               ELSE model_output_mask
                        /\ status' = IF ~ok THEN "Error running model"
                                     ELSE IF is_mask THEN "Inference Complete"
                                     ELSE status
                        /\ UNCHANGED sam_active
                   ELSE IF m.kind = "sam"
                   THEN \* on_done(res) / on_err(e) of activate_sam_mode
                        /\ sam_active' = (ok /\ sam_active)
                        /\ status' = IF ok THEN "SAM Ready" ELSE status
                        /\ UNCHANGED <<whole_image_button, raw_model_mask,
                                       model_output_mask>>
                   ELSE IF m.kind = "load"
                   THEN \* on_complete(res) / on_fail(err) of load_selected_models
                        /\ status' = IF ok THEN "Models loaded successfully." ELSE status
                        /\ UNCHANGED <<whole_image_button, raw_model_mask,
                                       model_output_mask, sam_active>>
                   ELSE \* _finalize_import(results) / _on_import_error(error)
                        /\ status' = IF ok /\ got.payload.kind = "thumbnails"
                                     THEN "Added images to gallery."
                                     ELSE status
                        /\ UNCHANGED <<whole_image_button, raw_model_mask,
                                       model_output_mask, sam_active>>
                /\ UNCHANGED <<raw_sam_logits, encoder_output, unified_var, paint_mode, coordinates,
                               lines, result_queue, workers, next_task>>
    /\ UNCHANGED <<docVars, cacheVars, exportVars, viewVars, limits, cmd_log>>

\* ---------------------------------------------------------- specifications

\* Editing the mask: the mutations, the paintbrush, undo and redo.
Next ==
    \/ add_to_working_image
    \/ subtract_from_working_image
    \/ clear_visible_area
    \/ clear_working_image
    \/ copy_entire_image
    \/ undo
    \/ redo
    \/ clear_coord_overlay
    \/ paint_mode_toggle
    \/ \E ev \in EventPoints : paint_draw_point(ev)

Spec == Init /\ [][Next]_vars

\* Moving the viewport over a document that is being edited.
InitView ==
    /\ Construct
    /\ limits = [edits |-> ViewEdits, clears |-> ViewEdits, moves |-> MaxMoves, log |-> FALSE]

ButtonNums == {2, 3}

NextView ==
    \/ \E ev \in EventPoints, up \in BOOLEAN : zoom(ev, up)
    \/ pan_left_keyboard
    \/ pan_right_keyboard
    \/ pan_up_keyboard
    \/ pan_down_keyboard
    \/ \E ev \in EventPoints : start_pan_mouse(ev)
    \/ \E ev \in EventPoints : pan_mouse(ev)
    \/ \E ev \in EventPoints, num \in ButtonNums : end_pan_mouse(ev, num)
    \/ \E sz \in CanvasSizes : on_resize(sz)
    \/ update_preview_delayed
    \/ copy_entire_image
    \/ undo
    \/ redo

SpecView == InitView /\ [][NextView]_vars

\* A long editing session: enough mutations to overflow the undo stack.
InitHistory ==
    /\ Construct
    /\ limits = [edits |-> UNDO_STEPS + 2, clears |-> MaxClears, moves |-> 0,
                 log |-> FALSE]

NextHistory ==
    \/ copy_entire_image
    \/ clear_working_image
    \/ undo
    \/ redo

SpecHistory == InitHistory /\ [][NextHistory]_vars

\* Editing with a drop shadow and a blurred background.
InitCache ==
    /\ Construct
    /\ limits = [edits |-> MaxEdits, clears |-> MaxEdits, moves |-> 0,
                 log |-> FALSE]

NextCache ==
    \/ toggle_shadow_options
    \/ \E r \in ShadowRadii : shadow_radius_slider(r)
    \/ \E mode \in BgModes : set_bg_mode(mode)
    \/ \E val \in BlurRadii : on_blur_slider_change(val)
    \/ \E img \in ImageFiles : on_drop(img)
    \/ copy_entire_image
    \/ clear_working_image
    \/ clear_visible_area
    \/ undo
    \/ redo

SpecCache == InitCache /\ [][NextCache]_vars

ShadowEdits == 1

InitShadow ==
    /\ Construct
    /\ limits = [edits |-> ShadowEdits, clears |-> ShadowEdits, moves |-> 0,
                 log |-> FALSE]

\* Moving every slider of the drop shadow and of the background while
\* the mask is filled and cleared and other images are loaded.
NextShadow ==
    \/ toggle_shadow_options
    \/ \E r \in ShadowRadii : shadow_radius_slider(r)
    \/ \E o \in ShadowOpacities : shadow_opacity_slider(o)
    \/ \E x \in ShadowOffsets : shadow_x_slider(x)
    \/ \E y \in ShadowOffsets : shadow_y_slider(y)
    \/ \E mode \in BgModes : set_bg_mode(mode)
    \/ \E val \in BlurRadii : on_blur_slider_change(val)
    \/ \E img \in ImageFiles : on_drop(img)
    \/ copy_entire_image
    \/ clear_working_image

SpecShadow == InitShadow /\ [][NextShadow]_vars

\* Painted strokes added and subtracted, over either background and with
\* or without the shadow, with later steps that raise.
NextRaise ==
    \/ paint_mode_toggle
    \/ \E ev \in EventPoints : paint_draw_point(ev)
    \/ toggle_shadow_options
    \/ \E mode \in BgModes : set_bg_mode(mode)
    \/ add_to_working_image
    \/ subtract_from_working_image
    \/ \E step \in LaterSteps : add_to_working_image_raised(step)
    \/ \E step \in LaterSteps : subtract_from_working_image_raised(step)
    \/ undo

SpecRaise == Init /\ [][NextRaise]_vars

\* Worker tasks (inference, import) running beside the keyboard commands.
InitWorker ==
    /\ Construct
    /\ limits = [edits |-> MaxEdits, clears |-> 0, moves |-> 0, log |-> FALSE]

Outcomes == {"success", "error"}

NextWorker ==
    \/ run_whole_image_model
    \/ \E n \in ImportSizes : process_import_paths(n)
    \/ \E img \in ImageFiles : on_drop(img)
    \/ \E w \in workers, outcome \in Outcomes : worker(w, outcome)
    \/ \E m \in monitors : _monitor_thread(m)
    \/ add_to_working_image
    \/ copy_entire_image
    \/ undo

SpecWorker == InitWorker /\ [][NextWorker]_vars

\* The toggles of the result panel (Shadow, Soften Edges, Alpha Channel)
\* over a document edited with the paintbrush and from the keyboard.
InitCompose ==
    /\ Construct
    /\ limits = [edits |-> MaxEdits, clears |-> MaxClears, moves |-> 0,
                 log |-> FALSE]

NextCompose ==
    \/ toggle_shadow_options
    \/ toggle_soften_options
    \/ \E val \in SoftenRadii : update_soften_label(val)
    \/ on_alpha_channel_toggle
    \/ paint_mode_toggle
    \/ \E ev \in EventPoints : paint_draw_point(ev)
    \/ add_to_working_image
    \/ subtract_from_working_image
    \/ copy_entire_image
    \/ clear_working_image
    \/ undo
    \/ redo

SpecCompose == InitCompose /\ [][NextCompose]_vars

\* Add and Subtract before any preview mask exists, over a document that
\* is edited with the whole-image commands.
NextWarn ==
    \/ toggle_shadow_options
    \/ \E mode \in BgModes : set_bg_mode(mode)
    \/ copy_entire_image
    \/ clear_working_image
    \/ undo
    \/ redo
    \/ add_to_working_image
    \/ subtract_from_working_image

SpecWarn == InitCompose /\ [][NextWarn]_vars

\* The preview mask: whole-image inference, SAM points and the threshold
\* slider, beside Add and the compositing options.
PreviewEdits == 1

InitPreview ==
    /\ Construct
    /\ limits = [edits |-> PreviewEdits, clears |-> 0, moves |-> 0, log |-> FALSE]

NextPreview ==
    \/ run_whole_image_model
    \/ activate_sam_mode
    \/ \E w \in workers : worker(w, "success")
    \/ \E m \in monitors : _monitor_thread(m)
    \/ \E ev \in EventPoints : end_box(ev)
    \/ \E val \in SliderValues : on_unified_slider_change(val)
    \/ toggle_shadow_options
    \/ set_bg_mode("blur")
    \/ add_to_working_image

SpecPreview == InitPreview /\ [][NextPreview]_vars

\* Moving around images of every size, with files dropped on the window
\* and the window resized in between.
NavMoves == 3

InitNavigate ==
    /\ Construct
    /\ limits = [edits |-> 0, clears |-> 0, moves |-> NavMoves, log |-> FALSE]

NextNavigate ==
    \/ \E ev \in EventPoints, up \in BOOLEAN : zoom(ev, up)
    \/ pan_left_keyboard
    \/ pan_right_keyboard
    \/ pan_up_keyboard
    \/ pan_down_keyboard
    \/ \E ev \in EventPoints : start_pan_mouse(ev)
    \/ \E ev \in EventPoints : pan_mouse(ev)
    \/ \E sz \in CanvasSizes : on_resize(sz)
    \/ \E img \in ImageFiles \cup {ICON} : on_drop(img)

SpecNavigate == InitNavigate /\ [][NextNavigate]_vars

\* The zoom factor under wheel steps, from the fit zoom of every image on
\* every canvas (fit zooms that division computes without rounding).
InitWheel ==
    /\ \E canvas \in AllCanvas, img \in Images : ConstructAt(canvas, img)
    /\ limits = [edits |-> 0, clears |-> 0, moves |-> 0, log |-> TRUE]

NextWheel == \E up \in BOOLEAN : zoom_factor_step(up)

SpecWheel == InitWheel /\ [][NextWheel]_vars

\* Applying thresholded whole-image maps to a part of the image on display.
InitApply ==
    /\ Construct
    /\ limits = [edits |-> MaxEdits, clears |-> 0, moves |-> MaxMoves, log |-> FALSE]

NextApply ==
    \/ \E ev \in EventPoints : zoom(ev, TRUE)
    \/ run_whole_image_model
    \/ \E w \in workers : worker(w, "success")
    \/ \E m \in monitors : _monitor_thread(m)
    \/ \E val \in SliderValues : on_unified_slider_change(val)
    \/ copy_entire_image
    \/ add_to_working_image
    \/ subtract_from_working_image

SpecApply == InitApply /\ [][NextApply]_vars

\* Clearing the visible area while the preview of a whole-image model is up.
NextVisible ==
    \/ \E ev \in EventPoints : zoom(ev, TRUE)
    \/ run_whole_image_model
    \/ \E w \in workers : worker(w, "success")
    \/ \E m \in monitors : _monitor_thread(m)
    \/ copy_entire_image
    \/ clear_visible_area

SpecVisible == Init /\ [][NextVisible]_vars

\* Exporting: the format and background buttons, the two save commands and
\* Copy all, for each image the program can be started on.
\* Mask edits before and between the saves.
ExportEdits == 1

InitExport ==
    /\ \E img \in Images : ConstructAt(INIT_CANVAS, img)
    /\ limits = [edits |-> ExportEdits, clears |-> 0, moves |-> 0, log |-> FALSE]

NextExport ==
    \/ \E fmt \in ExportFormats : set_export_format(fmt)
    \/ \E mode \in BgModes : set_bg_mode(mode)
    \/ toggle_shadow_options
    \/ copy_entire_image
    \/ quick_save_automatic
    \/ \E choice \in SaveAsChoices : save_as_image(choice)

SpecExport == InitExport /\ [][NextExport]_vars

\* Worker tasks that fail: detection, SAM activation and model loading,
\* each under the overlay, beside Copy all and Add.
NextFail ==
    \/ run_whole_image_model
    \/ activate_sam_mode
    \/ load_selected_models
    \/ \E w \in workers, outcome \in Outcomes : worker(w, outcome)
    \/ \E m \in monitors : _monitor_thread(m)
    \/ copy_entire_image
    \/ add_to_working_image

SpecFail == Init /\ [][NextFail]_vars

\* Replacing the source image (a drop, Reset Workpage) under an edited
\* document with detection results.
NextLoad ==
    \/ \E img \in ImageFiles : on_drop(img)
    \/ reset_all
    \/ copy_entire_image
    \/ undo
    \/ run_whole_image_model
    \/ activate_sam_mode
    \/ \E w \in workers : worker(w, "success")
    \/ \E m \in monitors : _monitor_thread(m)

SpecLoad == InitWorker /\ [][NextLoad]_vars

\* Committing a preview after the viewport has moved: the wheel and the
\* arrow keys between a detection or a paint stroke and Add.
NextCommit ==
    \/ \E ev \in EventPoints : zoom(ev, TRUE)
    \/ pan_left_keyboard
    \/ pan_right_keyboard
    \/ run_whole_image_model
    \/ \E w \in workers : worker(w, "success")
    \/ \E m \in monitors : _monitor_thread(m)
    \/ \E val \in SliderValues : on_unified_slider_change(val)
    \/ paint_mode_toggle
    \/ \E ev \in EventPoints : paint_draw_point(ev)
    \/ add_to_working_image

\* Wheel steps and arrow keys in one run of the commit specification: far
\* enough in for the crop to be narrower than the image, and one step aside.
CommitMoves == 4
\* Mutations of the working mask in one run of the commit specification.
CommitEdits == 1

InitCommit ==
    /\ Construct
    /\ limits = [edits |-> CommitEdits, clears |-> 0, moves |-> CommitMoves, log |-> FALSE]

SpecCommit == InitCommit /\ [][NextCommit]_vars

\* The SAM embedding cache: manual detection and its point prompts while
\* the source image is replaced and the window resized.
NextEmbed ==
    \/ \E img \in ImageFiles : on_drop(img)
    \/ reset_all
    \/ \E sz \in CanvasSizes : on_resize(sz)
    \/ activate_sam_mode
    \/ \E w \in workers : worker(w, "success")
    \/ \E m \in monitors : _monitor_thread(m)
    \/ \E ev \in EventPoints : end_box(ev)

SpecEmbed == InitNavigate /\ [][NextEmbed]_vars

\* The quality of the input canvas after viewport changes: the wheel, the
\* arrow keys and mouse drags, some of them shorter than 5 canvas pixels,
\* with the debounce timer.  The Tk main loop runs a due timer, and a
\* pressed mouse button is released.
DragPoints == {<<12, 37>>, <<15, 37>>, <<62, 37>>}

release_while_panning ==
    panning /\ \E ev \in DragPoints, num \in {2, 3} : end_pan_mouse(ev, num)

NextRender ==
    \/ \E ev \in DragPoints, up \in BOOLEAN : zoom(ev, up)
    \/ pan_left_keyboard
    \/ pan_right_keyboard
    \/ \E ev \in DragPoints : start_pan_mouse(ev)
    \/ \E ev \in DragPoints : pan_mouse(ev)
    \/ release_while_panning
    \/ update_preview_delayed

SpecRender ==
    /\ InitNavigate
    /\ [][NextRender]_vars
    /\ WF_vars(update_preview_delayed)
    /\ WF_vars(release_while_panning)

\* Wheel steps over an image that is letter-boxed at fit zoom by a few
\* canvas pixels, so that one step in makes it outgrow the canvas on both
\* axes: a canvas 75 wide and 28 high around the 3x1 image.
ANCHOR_CANVAS == <<75, 28>>
AnchorPoints == {<<12, 5>>, <<40, 8>>, <<62, 10>>}

InitAnchor ==
    /\ ConstructAt(ANCHOR_CANVAS, PLACEHOLDER)
    /\ limits = [edits |-> 0, clears |-> 0, moves |-> NavMoves, log |-> FALSE]

NextAnchor ==
    \/ \E ev \in AnchorPoints, up \in BOOLEAN : zoom(ev, up)
    \/ pan_left_keyboard
    \/ pan_right_keyboard
    \/ pan_up_keyboard
    \/ pan_down_keyboard

SpecAnchor == InitAnchor /\ [][NextAnchor]_vars

\* The threshold slider at every whole percentage over the raw output of
\* a detection, on each image of the session.
Percentages == 0 .. 100

InitThreshold ==
    /\ \E img \in Images : ConstructAt(INIT_CANVAS, img)
    /\ limits = [edits |-> 0, clears |-> 0, moves |-> 0, log |-> FALSE]

NextThreshold ==
    \/ run_whole_image_model
    \/ \E w \in workers : worker(w, "success")
    \/ \E m \in monitors : _monitor_thread(m)
    \/ \E val \in Percentages : on_unified_slider_change(val)

SpecThreshold == InitThreshold /\ [][NextThreshold]_vars

\* ------------------------------------------------------------- properties

Mutations ==
    {"add", "subtract", "paint_add", "paint_subtract", "clear", "copy_all",
     "clear_visible"}
Undos == {"undo", "undo_nothing"}
Redos == {"redo", "redo_nothing"}

\* C1: undo right after a mask mutation (Add, Subtract, paint commit, clear,
\* copy-all, clear-visible-area) makes the working mask equal, pixel for
\* pixel, to its value just before the mutation, and redo right after that
\* undo makes it equal to its value just after the mutation.
UndoRestoresRedoReapplies ==
    LET n == Len(cmd_log)
    IN  /\ (n >= 2 /\ cmd_log[n].op \in Undos /\ cmd_log[n - 1].op \in Mutations)
              => working_mask = cmd_log[n - 1].pre
        /\ (n >= 3 /\ cmd_log[n].op \in Redos /\ cmd_log[n - 1].op \in Undos
                   /\ cmd_log[n - 2].op \in Mutations)
              => working_mask = cmd_log[n - 2].post

\* A paint commit that changed the mask, then undo, then redo.
UndoRedoDone ==
    /\ Len(cmd_log) = 3
    /\ cmd_log[1].op = "paint_add" /\ cmd_log[1].pre # cmd_log[1].post
    /\ cmd_log[2].op = "undo"
    /\ cmd_log[3].op = "redo"

\* The preview _apply_mask_modification would use passes its two checks.
Applies(preview) ==
    LET mask == IF paint_mode THEN Some(generate_paint_mode_mask) ELSE preview
    IN  ~IsNone(mask) /\ ~PasteRaises(Val(mask), ViewBox)

SemanticMutation ==
    \/ Applies(model_output_mask) /\ add_to_working_image
    \/ Applies(model_output_mask) /\ subtract_from_working_image
    \/ Applies(Some(NewL(CropSize, 255))) /\ clear_visible_area
    \/ clear_working_image
    \/ copy_entire_image

\* C8: every semantic mutation that succeeds pushes exactly one snapshot,
\* the resulting working mask, onto the undo stack (dropping the oldest
\* beyond UNDO_STEPS) and leaves the redo stack empty.
MutationPushesOneSnapshot ==
    [][SemanticMutation =>
         /\ undo_history_mask' =
                IF Len(undo_history_mask) < UNDO_STEPS
                THEN Append(undo_history_mask, working_mask')
                ELSE Append(Tail(undo_history_mask), working_mask')
         /\ redo_history_mask' = << >>]_vars

\* A mutation made right after an undo: the redo stack is empty again.
MutationAfterUndoDone ==
    /\ Len(cmd_log) >= 2
    /\ cmd_log[Len(cmd_log) - 1].op = "undo"
    /\ cmd_log[Len(cmd_log)].op \in Mutations
    /\ redo_history_mask = << >>
    /\ Len(undo_history_mask) = 2

\* C9: undo with exactly one snapshot leaves the working mask, the undo
\* stack and the redo stack as they are, and so does redo with an empty
\* redo stack.
NothingToUndoOrRedo ==
    [][/\ (undo /\ Len(undo_history_mask) = 1)
            => UNCHANGED <<working_mask, undo_history_mask, redo_history_mask>>
       /\ (redo /\ Len(redo_history_mask) = 0)
            => UNCHANGED <<working_mask, undo_history_mask, redo_history_mask>>]_vars

\* An edit undone, undo with the one snapshot left, the edit redone, and
\* redo with nothing left to redo.
NothingDone ==
    /\ Len(cmd_log) = 3
    /\ cmd_log[1].op = "undo_nothing"
    /\ cmd_log[2].op = "redo"
    /\ cmd_log[3].op = "redo_nothing"

ViewChange ==
    \/ \E ev \in EventPoints, up \in BOOLEAN : zoom(ev, up)
    \/ pan_left_keyboard \/ pan_right_keyboard
    \/ pan_up_keyboard \/ pan_down_keyboard
    \/ \E ev \in EventPoints : start_pan_mouse(ev)
    \/ \E ev \in EventPoints : pan_mouse(ev)
    \/ \E ev \in EventPoints, num \in ButtonNums : end_pan_mouse(ev, num)
    \/ \E sz \in CanvasSizes : on_resize(sz)
    \/ update_preview_delayed

\* C10: a pure view change (wheel zoom, mouse-drag pan, keyboard pan, window
\* resize, the deferred re-render) never changes the working mask, the undo
\* stack or the redo stack.
ViewChangeKeepsDocument ==
    [][ViewChange =>
         UNCHANGED <<working_mask, undo_history_mask, redo_history_mask>>]_vars

\* The window resized and the viewport zoomed and panned over an edited
\* document.
ViewMovedOverEdits ==
    /\ canvas_w # INIT_CANVAS[1]
    /\ view_x > 0
    /\ zoom_factor # lowest_zoom_factor
    /\ Len(undo_history_mask) = 2
    /\ working_mask # NewL(original_image.size, 0)

\* C7: the undo stack always holds between 1 and UNDO_STEPS snapshots, and a
\* push onto a full stack evicts exactly the oldest entry and keeps the
\* others in their order.
UndoStackBounded ==
    /\ [](Len(undo_history_mask) \in 1 .. UNDO_STEPS)
    /\ [][(Len(undo_history_mask) = UNDO_STEPS
              /\ (copy_entire_image \/ clear_working_image))
          => undo_history_mask' = Append(Tail(undo_history_mask), working_mask')]_vars

\* A full stack that has lost its first snapshot, with a cleared mask
\* between copies.
OldestEvicted ==
    /\ Len(undo_history_mask) = UNDO_STEPS
    /\ undo_history_mask[1] = NewL(original_image.size, 255)
    /\ \E i \in 2 .. UNDO_STEPS - 1 :
           undo_history_mask[i] = NewL(original_image.size, 0)

\* C5: after any operation that changes the working mask, the shadow cache
\* is absent or was blurred from the current working mask, and so is the
\* shadow composited into the working image.
ShadowFromCurrentMask ==
    /\ ~IsNone(cached_blurred_shadow)
          => Val(cached_blurred_shadow).mask = working_mask
    /\ ~IsNone(working_image.shadow)
          => Val(working_image.shadow).mask = working_mask

\* C6: after any change of the working mask or of the blur intensity, in
\* any background mode, the background blur cache is absent or was computed
\* from the current working mask and the current blur intensity, and so is
\* the background on display.
BlurFromCurrentMask ==
    /\ ~IsNone(cached_blur_image)
          => /\ Val(cached_blur_image).mask = working_mask
             /\ Val(cached_blur_image).radius = current_blur_radius
    /\ ~IsNone(output_displayed.bg)
          => /\ Val(output_displayed.bg).mask = working_mask
             /\ Val(output_displayed.bg).radius = current_blur_radius

\* C2: a result of a request that a newer request has overtaken is
\* discarded: no success callback ever runs with it.
StaleResultDiscarded ==
    \A d \in delivered : d.ok => d.result = d.newest

\* A task is in flight while its poll is still scheduled.
InFlight == monitors # {}

\* C3: while a worker task is in flight, from start_threaded_task until
\* _monitor_thread has delivered its result, no command changes the mask,
\* the history or the document and no second worker request starts.
NoCommandWhileInFlight ==
    [][InFlight =>
         /\ UNCHANGED <<original_image, working_mask, undo_history_mask,
                        redo_history_mask, view_x, view_y>>
         /\ next_task' = next_task]_vars

\* C4: every callback that runs is the callback of the task whose result it
\* is given, and a task whose result has been handed over is polled for no
\* longer and leaves no overlay.
OwnResultDelivered ==
    /\ \A d \in delivered : d.callback = d.result
    /\ (workers = {} /\ \A q \in 1 .. Len(queues) : queues[q] = << >>)
          => (monitors = {} /\ ~loading_overlay)

\* C11: moving the threshold slider, in whole-image or in SAM mode,
\* recomputes the preview mask only: the working mask, the undo and redo
\* stacks, the raw model outputs and both caches stay as they are.
SliderKeepsDocument ==
    [][(\E val \in SliderValues : on_unified_slider_change(val)) =>
         UNCHANGED <<working_mask, undo_history_mask, redo_history_mask,
                     raw_model_mask, raw_sam_logits, encoder_output, cached_blurred_shadow,
                     cached_blur_image>>]_vars

\* The slider moved off its default in SAM mode, over an edited document
\* with both caches filled, and the preview cut from the logits at the
\* slider's position.
SliderMovedInSamMode ==
    /\ sam_active /\ unified_var # 50
    /\ ~IsNone(raw_sam_logits)
    /\ model_output_mask = Some(update_sam_threshold(Val(raw_sam_logits),
                                                     SamThreshold(unified_var)))
    /\ Val(model_output_mask) # NewL(CropSize, 0)
    /\ Len(undo_history_mask) = 2
    /\ ~IsNone(cached_blurred_shadow) /\ ~IsNone(cached_blur_image)

\* A shadow layer that shows: one blurred from a mask that is not empty.
ShadowShows(img) ==
    /\ ~IsNone(img.shadow)
    /\ Val(img.shadow).mask # NewL(Val(img.shadow).mask.size, 0)

\* The working image add_drop_shadow would compose now, from the source,
\* the working mask and the soften and shadow settings as they are.
ComposedNow ==
    [cutout_working_image(original_image, working_mask) EXCEPT
         !.shadow = IF enable_shadow_var
                    THEN Some(BlurredShadow(working_mask, shadow_radius))
                    ELSE None]

\* Two compositions that differ at most by a shadow that does not show.
SameComposition(a, b) ==
    /\ a.src = b.src /\ a.alpha = b.alpha
    /\ ShadowShows(a) = ShadowShows(b)
    /\ ShadowShows(a) => a.shadow = b.shadow

\* C12: after every completed Add, Subtract, paint commit, undo, redo,
\* clear and copy-all the working image is the cut-out composed from the
\* source and the current working mask under the current soften and shadow
\* settings; and whatever the toggles did, while the shadow is disabled
\* neither the working image nor the image on display has a shadow layer.
ComposedFromCurrentSettings ==
    /\ [](~enable_shadow_var =>
            ~ShadowShows(working_image) /\ ~ShadowShows(output_displayed.fg))
    /\ [][(add_to_working_image \/ subtract_from_working_image \/ undo \/ redo
             \/ clear_working_image \/ copy_entire_image)
          => SameComposition(working_image', ComposedNow')]_vars

\* min(canvas_w / W, canvas_h / H) of the image and canvas of the moment.
lowest_fit_zoom == LowestZoom(<<canvas_w, canvas_h>>, original_image.size)

\* C13 (as stated): whatever was zoomed, loaded or resized, the zoom factor
\* lies between the fit zoom of the image on the canvas and MAX_ZOOM_FACTOR.
ZoomWithinFitAndMax ==
    /\ RatLe(lowest_fit_zoom, zoom_factor)
    /\ RatLe(zoom_factor, <<MAX_ZOOM_FACTOR, 1>>)

\* C13 (amended): the zoom factor lies between the fit zoom and the larger
\* of MAX_ZOOM_FACTOR and the fit zoom.
ZoomWithinFitAndCap ==
    /\ RatLe(lowest_fit_zoom, zoom_factor)
    /\ RatLe(zoom_factor, RatMax(<<MAX_ZOOM_FACTOR, 1>>, lowest_fit_zoom))

\* The wheel was turned over an image that fits only above MAX_ZOOM_FACTOR.
ZoomedOverTinyImage ==
    /\ RatLt(<<MAX_ZOOM_FACTOR, 1>>, lowest_fit_zoom)
    /\ zoom_factor = lowest_fit_zoom
    /\ pan_step = DivZoom(PAN_STEP, zoom_factor)

\* W - canvas_w / zoom and H - canvas_h / zoom: the largest origin at which
\* the visible rectangle ends inside the image.
MaxOriginX == Px(original_image.size[1]) - DivZoom(canvas_w, zoom_factor)
MaxOriginY == Px(original_image.size[2]) - DivZoom(canvas_h, zoom_factor)

\* C14 (as stated): after any zooming, panning, resizing and loading the view
\* origin lies in [0, W - canvas_w/zoom] x [0, H - canvas_h/zoom].
ViewWithinImage ==
    /\ 0 <= view_x /\ view_x <= MaxOriginX
    /\ 0 <= view_y /\ view_y <= MaxOriginY

\* C14 (amended): the view origin lies in [0, max(0, W - canvas_w/zoom)] x
\* [0, max(0, H - canvas_h/zoom)]: along an axis on which the image is smaller
\* than the view the origin is 0 and the view reaches past the image.
ViewWithinClampRange ==
    /\ 0 <= view_x /\ view_x <= Max(0, MaxOriginX)
    /\ 0 <= view_y /\ view_y <= Max(0, MaxOriginY)

\* Zoomed in and panned to the right edge of an image that is lower than
\* the view.
PannedToRightEdge ==
    /\ view_x > 0 /\ view_x = MaxOriginX
    /\ view_y = 0 /\ MaxOriginY < 0
    /\ zoom_factor # lowest_zoom_factor

\* The log is k wheel steps in, none refused at MAX_ZOOM_FACTOR, then k out.
InThenOut(k) ==
    /\ Len(cmd_log) = 2 * k
    /\ \A i \in 1 .. k :
           cmd_log[i].op = "zoom_in" /\ cmd_log[i].post # cmd_log[i].pre
    /\ \A i \in k + 1 .. 2 * k : cmd_log[i].op = "zoom_out"

\* C15: from the fit zoom, k zoom-ins that do not hit the maximum followed by
\* k zoom-outs leave the zoom factor at exactly the fit zoom.
ZoomRoundTrip ==
    \A k \in 1 .. WheelSteps : InThenOut(k) => zoom_factor = lowest_zoom_factor

\* The canvas position at which update_input_image_preview shows the image
\* point p is ev: the crop starts at the whole pixel orig_image_crop.box
\* names and is drawn, scaled by the zoom factor, at the padding.
ShownAt(p, ev) ==
    \A i \in 1 .. 2 :
        (p[i] - Px(orig_image_crop.box[i])) * zoom_factor[1]
            = (ev[i] - pad[i]) * zoom_factor[2] * Scale

\* C16: in every viewport, a canvas point mapped to image coordinates is
\* shown at that canvas point again, and the zoom anchor, the SAM point and
\* the paint stroke (placed in the crop on display) of a canvas position
\* are the same image point.
OneCanvasToImageMapping ==
    \A ev \in EventPoints :
        /\ ShownAt(sam_point(ev), ev)
        /\ zoom_anchor(ev) = sam_point(ev)
        /\ <<Px(orig_image_crop.box[1]) + paint_point(ev)[1],
             Px(orig_image_crop.box[2]) + paint_point(ev)[2]>> = sam_point(ev)

\* The pixels a preview mask includes.
Included(preview) == {p \in Pix(Val(preview).size) : Val(preview).pix[p] = 255}

\* C17: in whole-image mode, with the raw map and the viewport as they are,
\* moving the slider up from the value the preview shows never removes a
\* pixel from the preview mask, and moving it down never adds one.
ThresholdMonotone ==
    [][\A val \in SliderValues :
          (/\ on_unified_slider_change(val)
           /\ ~sam_active
           /\ ~IsNone(raw_model_mask)
           /\ model_output_mask = PreviewAt(unified_var, FALSE, raw_model_mask,
                                            raw_sam_logits, model_output_mask))
          => IF unified_var <= val
             THEN Included(model_output_mask) \subseteq Included(model_output_mask')
             ELSE Included(model_output_mask') \subseteq Included(model_output_mask)]_vars

\* The slider at its top over a whole-image map: the preview includes the
\* pixels the map scores low, which the middle of the slider leaves out.
SliderRaisedOverWholeImageMap ==
    /\ ~sam_active
    /\ ~IsNone(raw_model_mask)
    /\ unified_var = 100
    /\ ~IsNone(model_output_mask)
    /\ Included(PreviewAt(50, FALSE, raw_model_mask, None, None))
           # Included(model_output_mask)
    /\ Included(model_output_mask) = Pix(original_image.size)

\* The mask Add or Subtract would apply now, embedded in a full-size zero
\* mask at the paste box.
Embedded ==
    Paste(NewL(working_mask.size, 0),
          IF paint_mode THEN generate_paint_mode_mask ELSE Val(model_output_mask),
          ViewBox)

\* The last history command was an Add of the mask that would be applied
\* now, it clamped no pixel, and its result is the working mask.
JustAddedThisMask ==
    /\ cmd_log # << >>
    /\ Last(cmd_log).op \in {"add", "paint_add"}
    /\ Last(cmd_log).post = working_mask
    /\ Last(cmd_log).post = ChopsAdd(Last(cmd_log).pre, Embedded)
    /\ \A p \in Pix(working_mask.size) :
           Last(cmd_log).pre.pix[p] + Embedded.pix[p] <= 255

\* C18: a Subtract that follows an Add of the identical preview mask in the
\* same viewport, the Add having clamped no pixel, returns the working mask
\* to its value before the Add.
SubtractUndoesAdd ==
    [][(Applies(model_output_mask) /\ JustAddedThisMask /\ subtract_from_working_image)
         => working_mask' = Last(cmd_log).pre]_vars

\* A stroke was added to pixels that were clear and subtracted again.
AddedThenSubtracted ==
    /\ Len(cmd_log) >= 2
    /\ cmd_log[Len(cmd_log) - 1].op = "paint_add"
    /\ cmd_log[Len(cmd_log)].op = "paint_subtract"
    /\ cmd_log[Len(cmd_log) - 1].post = cmd_log[Len(cmd_log)].pre
    /\ cmd_log[Len(cmd_log) - 1].post # cmd_log[Len(cmd_log) - 1].pre
    /\ working_mask = cmd_log[Len(cmd_log) - 1].pre

\* The mask Add or Subtract would apply now.
AppliedMask == IF paint_mode THEN generate_paint_mode_mask ELSE Val(model_output_mask)

\* The working mask after the step is old (+) preview inside the crop
\* rectangle and old outside, (+) being the saturating sum or difference.
CombinedInCrop(sign) ==
    \A p \in Pix(working_mask.size) :
        working_mask'.pix[p] =
            IF InBox(p, ViewBox)
            THEN LET old == working_mask.pix[p]
                     new == AppliedMask.pix[<<p[1] - ViewBox[1], p[2] - ViewBox[2]>>]
                 IN  IF sign = 1 THEN Min(255, old + new) ELSE Max(0, old - new)
            ELSE working_mask.pix[p]

\* C19: Add with a preview of the size of the crop sets each pixel of the
\* working mask inside the crop rectangle to min(255, old + preview) and
\* leaves the others, Subtract sets it to max(0, old - preview); an all-white
\* w x h preview added at offset (0, 0) to an empty mask gives w * h pixels
\* at 255 and 0 elsewhere.
AddAndSubtractCombineInCrop ==
    [][/\ (Applies(model_output_mask) /\ add_to_working_image) => CombinedInCrop(1)
       /\ (Applies(model_output_mask) /\ subtract_from_working_image)
              => CombinedInCrop(-1)
       /\ (/\ Applies(model_output_mask) /\ add_to_working_image
           /\ AppliedMask = NewL(CropSize, 255)
           /\ working_mask = NewL(working_mask.size, 0)
           /\ ViewBox[1] = 0 /\ ViewBox[2] = 0)
              => /\ Cardinality({p \in Pix(working_mask.size) : working_mask'.pix[p] = 255})
                       = CropSize[1] * CropSize[2]
                 /\ \A p \in Pix(working_mask.size) : working_mask'.pix[p] \in {0, 255}]_vars

\* A stroke was added to a crop that starts right of the first column: the
\* column left of the crop is clear, a pixel of the crop is set.
AddedInsideOffsetCrop ==
    /\ ViewBox[1] > 0
    /\ CropSize[1] < original_image.size[1]
    /\ \A p \in Pix(working_mask.size) : p[1] < ViewBox[1] => working_mask.pix[p] = 0
    /\ \E p \in Pix(working_mask.size) : InBox(p, ViewBox) /\ working_mask.pix[p] = 255
    /\ Len(undo_history_mask) = 2

\* C20: Add or Subtract without a preview mask sets the warning in the
\* status line and leaves the working mask, the working image, the undo and
\* redo stacks and both caches as they are.
NoMaskMutatesNothing ==
    [][(/\ ~paint_mode
        /\ IsNone(model_output_mask)
        /\ (add_to_working_image \/ subtract_from_working_image))
         => /\ status' = "Warning: No mask generated to add/subtract. Run a model first."
            /\ UNCHANGED <<working_mask, working_image, undo_history_mask,
                           redo_history_mask, cached_blurred_shadow,
                           cached_blur_image>>]_vars

\* The warning is up over a document with something to redo and with both
\* caches filled.
WarnedOverEditedDocument ==
    /\ status = "Warning: No mask generated to add/subtract. Run a model first."
    /\ IsNone(model_output_mask)
    /\ redo_history_mask # << >>
    /\ ~IsNone(cached_blurred_shadow)
    /\ ~IsNone(cached_blur_image)

\* C21: clear_visible_area, in paint mode as in any other, sets every pixel
\* of the working mask inside the crop on display to 0 and leaves every
\* pixel outside it as it is.
ClearVisibleAreaClearsCrop ==
    [][clear_visible_area
         => \A p \in Pix(working_mask.size) :
                working_mask'.pix[p] =
                    IF InBox(p, ViewBox) THEN 0 ELSE working_mask.pix[p]]_vars

Saves ==
    quick_save_automatic \/ \E choice \in SaveAsChoices \ {"cancel"} : save_as_image(choice)

\* The working mask is all 255, the shadow is off and the background is a
\* solid colour.
FullMaskOverColour ==
    /\ working_mask = NewL(original_image.size, 255)
    /\ ~enable_shadow_var
    /\ bg_mode = "color"

\* C23: with the working mask all 255, the shadow off and a solid colour as
\* background, the exported image equals the source image at every pixel.
ExportEqualsSource ==
    [][(FullMaskOverColour /\ Saves)
         => \A p \in Pix(original_image.size) :
                ExportedPixel(original_image, Val(saved_file'), p)
                    = SourcePixel(original_image, p)]_vars

\* C23, amended: the exported image is the source image over the colour: it
\* equals the source image at every pixel where the source image is opaque,
\* and shows the colour where the source image itself is transparent.
ExportEqualsSourceOverColour ==
    [][(FullMaskOverColour /\ Saves)
         => \A p \in Pix(original_image.size) :
                ExportedPixel(original_image, Val(saved_file'), p)
                    = IF SourceAlpha(original_image)[p] = 255
                      THEN SourcePixel(original_image, p)
                      ELSE [SourcePixel(original_image, p) EXCEPT !.under = "color"]]_vars

\* A fully included image with a transparent pixel was exported over the
\* colour as a JPG.
ExportedFullMaskOverColour ==
    /\ FullMaskOverColour
    /\ \E p \in Pix(original_image.size) : SourceAlpha(original_image)[p] < 255
    /\ ~IsNone(saved_file)
    /\ Val(saved_file).format = "jpg"
    /\ Val(saved_file).image.mode = "color"
    /\ Val(saved_file).image.fg.alpha.mask = working_mask

\* C24: a save with the JPG format chosen while the background is
\* transparent writes a file composed over white and leaves the warning
\* about the lost transparency in the status line; the background mode and
\* the export format stay as they are.
OpaqueSaveWritesOverWhite ==
    [][(export_format = "jpg" /\ bg_mode = "transparent" /\ Saves)
         => /\ ~IsNone(saved_file')
            /\ Val(saved_file').white
            /\ Val(saved_file').format = "jpg"
            /\ status' = "Warning: Saved as JPG with White Background (No Transparency)"
            /\ UNCHANGED <<bg_mode, export_format>>]_vars

\* The poll of task m takes the failure of an inference, a SAM activation
\* or a model load from the queue and hands it to the error callback.
FailureDelivered(m) ==
    /\ _monitor_thread(m)
    /\ m.kind \in {"infer", "sam", "load"}
    /\ queues[result_queue] # << >>
    /\ Head(queues[result_queue]).status = "error"

\* C25: when an inference, a SAM activation or a model load fails, the
\* working mask, the undo and redo stacks and the preview and raw output
\* that were valid before the request are as they were before the request,
\* the overlay is gone, the detection button is enabled, and SAM mode is
\* off after a failed SAM activation.
FailureLeavesStateOfRequest ==
    [][\A m \in monitors :
          (/\ FailureDelivered(m)
           /\ cmd_log # << >>
           /\ Last(cmd_log).op = "request"
           /\ ~IsNone(Last(cmd_log).pre.preview)
           /\ ~IsNone(Last(cmd_log).pre.raw))
            => /\ Snapshot(working_mask', undo_history_mask', redo_history_mask',
                           model_output_mask', raw_model_mask', raw_sam_logits')
                      = Last(cmd_log).pre
               /\ ~loading_overlay'
               /\ whole_image_button' = "normal"
               /\ (m.kind = "sam" => ~sam_active')]_vars

\* C26: after an inference failure the model is unusable: a further
\* detection request, made while the failure is still in the status line and
\* so before any reload, starts no task.
FailedModelRejected ==
    [][(status = "Error running model" /\ run_whole_image_model)
         => UNCHANGED <<workers, monitors, next_task, queues>>]_vars

\* The working mask and every entry of the undo and redo stacks have the
\* size of the source image.
SizedAsSource ==
    /\ working_mask.size = original_image.size
    /\ \A i \in 1 .. Len(undo_history_mask) :
           undo_history_mask[i].size = original_image.size
    /\ \A i \in 1 .. Len(redo_history_mask) :
           redo_history_mask[i].size = original_image.size

\* C27: after a new image is loaded or the workpage is reset, the working
\* mask is all zero and of the size of the new source image, the undo stack
\* holds exactly one all-zero snapshot, the redo stack is empty, the raw AI
\* outputs are cleared and SAM mode is off; the working mask and every
\* history entry always have the size of the source image.
NewImageStartsBlank ==
    /\ []SizedAsSource
    /\ [][((\E img \in ImageFiles : on_drop(img)) \/ reset_all)
            => /\ working_mask' = NewL(original_image'.size, 0)
               /\ undo_history_mask' = <<NewL(original_image'.size, 0)>>
               /\ redo_history_mask' = << >>
               /\ IsNone(raw_model_mask')
               /\ IsNone(raw_sam_logits')
               /\ ~sam_active']_vars

\* An image of another size was loaded over a document that had been
\* edited and for which a detection result had been delivered.
LoadedOverEditedDocument ==
    /\ original_image.size # PLACEHOLDER.size
    /\ limits.edits < MaxEdits
    /\ delivered # {}
    /\ Len(undo_history_mask) = 1

\* Add or Subtract commits, outside paint mode, a preview mask that is the
\* raw output of a whole-image model at the threshold of the slider.
CommitsThresholdedOutput ==
    /\ add_to_working_image \/ subtract_from_working_image
    /\ ~paint_mode
    /\ ~sam_active
    /\ Applies(model_output_mask)
    /\ ~IsNone(raw_model_mask)
    /\ Val(raw_model_mask).kind = "mask"
    /\ model_output_mask
           = Some(update_mask_threshold(Val(raw_model_mask).mask,
                                        WholeThreshold(unified_var)))

\* C28: a preview mask that Add or Subtract commits was derived for the
\* crop on display at the commit: the output of a whole-image model for an
\* earlier crop is never pasted at the offset of the current one, also not
\* after the slider has thresholded it again.
CommitsPreviewOfCurrentCrop ==
    [][CommitsThresholdedOutput
         => Val(raw_model_mask).crop = orig_image_crop]_vars

\* The source pixels that Add or Subtract would mark in paint mode now: the
\* white pixels of generate_paint_mode_mask, pasted at the current view box.
PaintedSourcePixels ==
    {p \in Pix(original_image.size) :
        /\ InBox(p, ViewBox)
        /\ generate_paint_mode_mask.pix[<<p[1] - ViewBox[1], p[2] - ViewBox[2]>>] = 255}

KeepsStrokes == paint_mode /\ paint_mode' /\ lines # << >> /\ lines' = lines

\* C29: in paint mode, a step that keeps the strokes (the arrow keys pan
\* without clearing them) leaves the source pixels that committing the
\* strokes would mark unchanged: strokes drawn under one viewport and
\* committed under another mark the same source pixels.
StrokesKeepSourcePixels ==
    [][KeepsStrokes => PaintedSourcePixels' = PaintedSourcePixels]_vars

\* C30: a cached SAM embedding is that of the current source image, and a
\* change of the window size leaves none cached: every operation that
\* replaces the source image or resizes the window discards it.
CachedEmbeddingIsCurrent ==
    /\ [](~IsNone(encoder_output) => Val(encoder_output).image = original_image.name)
    /\ [][init_size' # init_size => IsNone(encoder_output')]_vars

\* C31: once the viewport changes have ended, the input canvas is
\* re-rendered with the quality filter and stays so: the last render is
\* never left at nearest-neighbour quality.
FinalRenderAtQuality == <>[](resampling_filter = "BOX")

\* The viewport origin after a translation by <<dx, dy>> image pixels,
\* clamped for the zoom factor of the moment.
PannedTo(dx, dy) ==
    /\ view_x' = ClampView(view_x + dx, original_image.size[1], canvas_w, zoom_factor)
    /\ view_y' = ClampView(view_y + dy, original_image.size[2], canvas_h, zoom_factor)

\* C32: an arrow key moves the viewport origin by PAN_STEP canvas pixels
\* divided by the zoom factor of the moment of the key press, and a mouse
\* drag of d canvas pixels by d divided by the zoom factor, both clamped
\* the same way.
PanScaledByCurrentZoom ==
    [][/\ pan_left_keyboard => PannedTo(-DivZoom(PAN_STEP, zoom_factor), 0)
       /\ pan_right_keyboard => PannedTo(DivZoom(PAN_STEP, zoom_factor), 0)
       /\ pan_up_keyboard => PannedTo(0, -DivZoom(PAN_STEP, zoom_factor))
       /\ pan_down_keyboard => PannedTo(0, DivZoom(PAN_STEP, zoom_factor))
       /\ \A ev \in EventPoints :
              pan_mouse(ev) /\ panning /\ ZoomedIn(zoom_factor, lowest_zoom_factor)
                  => PannedTo(-DivZoom(ev[1] - pan_start[1], zoom_factor),
                              -DivZoom(ev[2] - pan_start[2], zoom_factor))]_vars

\* The image point on display under the canvas position ev: the crop
\* starts at a whole pixel and is drawn, scaled, at the padding.
ShownUnder(ev) ==
    <<Px(orig_image_crop.box[1]) + DivZoom(ev[1] - pad[1], zoom_factor),
      Px(orig_image_crop.box[2]) + DivZoom(ev[2] - pad[2], zoom_factor)>>

\* The origin zoom computes for the new zoom factor z lies in the clamp
\* range before it is clamped.
ClampIdle(ev, z) ==
    LET ux == zoom_anchor(ev)[1] - DivZoom(ev[1], z)
        uy == zoom_anchor(ev)[2] - DivZoom(ev[2], z)
    IN  /\ 0 <= ux /\ ux <= Px(original_image.size[1]) - DivZoom(canvas_w, z)
        /\ 0 <= uy /\ uy <= Px(original_image.size[2]) - DivZoom(canvas_h, z)

\* C33: a wheel step whose new origin is not clamped leaves the image
\* point on display under the cursor where it was, also when the image
\* was drawn with padding before the step.
ZoomKeepsPointUnderCursor ==
    [][\A ev \in AnchorPoints, up \in BOOLEAN :
          zoom(ev, up) /\ ClampIdle(ev, zoom_factor')
              => ShownUnder(ev)' = ShownUnder(ev)]_vars

\* C34: along an axis on which the view is at least as large as the image
\* (canvas_w / zoom >= W, resp. canvas_h / zoom >= H) every zoom and pan
\* leaves the view origin at 0: the clamp yields neither a negative origin
\* nor one past an inverted range.
OriginPinnedWhereImageFits ==
    /\ DivZoom(canvas_w, zoom_factor) >= Px(original_image.size[1]) => view_x = 0
    /\ DivZoom(canvas_h, zoom_factor) >= Px(original_image.size[2]) => view_y = 0

\* The view changes of the run are spent, a wheel step or an arrow key
\* among them, and the image is exactly as wide as the view and lower
\* than it.
MovedWhereImageFits ==
    /\ limits.moves = 0 /\ after_id
    /\ MaxOriginX = 0 /\ MaxOriginY < 0
    /\ view_x = 0 /\ view_y = 0

\* C35: at every whole slider percentage s, in whole-image mode, the
\* preview mask includes exactly the pixels whose raw value is greater than
\* t = 10 + (1 - s/100) * 240 (compared here in hundredths, without
\* rounding), and the threshold the code applies lies between 10 and 250,
\* 250 at s = 0 and 10 at s = 100.
PreviewAboveExactThreshold ==
    [][\A val \in Percentages :
          (on_unified_slider_change(val) /\ ~sam_active /\ ~IsNone(raw_model_mask)
              /\ Val(raw_model_mask).kind = "mask")
          => /\ Included(model_output_mask')
                    = {p \in Pix(Val(raw_model_mask).mask.size) :
                          100 * Val(raw_model_mask).mask.pix[p]
                              > 1000 + (100 - val) * 240}
             /\ 10 <= WholeThreshold(val) /\ WholeThreshold(val) <= 250
             /\ val = 0 => WholeThreshold(val) = 250
             /\ val = 100 => WholeThreshold(val) = 10]_vars

\* ------------------------------------------------------------ shadow cache

shadow_placement_slider ==
    \/ \E o \in ShadowOpacities : shadow_opacity_slider(o)
    \/ \E x \in ShadowOffsets : shadow_x_slider(x)
    \/ \E y \in ShadowOffsets : shadow_y_slider(y)

\* A change of the shadow opacity or offset that finds a cached shadow
\* keeps it, and where the cached shadow is the one of the working mask at
\* the radius set, the shadow is composed from it at the new placement.
PlacementReusesCache ==
    (shadow_placement_slider /\ ~IsNone(cached_blurred_shadow))
    => /\ cached_blurred_shadow' = cached_blurred_shadow
       /\ cached_blurred_shadow = Some(BlurredShadow(working_mask, shadow_radius))
          => /\ working_image'.shadow = cached_blurred_shadow
             /\ working_image'.placed =
                    Some(<<shadow_opacity', shadow_x', shadow_y'>>)

\* A change of the shadow radius to r blurs the working mask anew.
RadiusRecomputesCache ==
    \A r \in ShadowRadii :
        shadow_radius_slider(r)
        => /\ cached_blurred_shadow' = Some(BlurredShadow(working_mask, r))
           /\ working_image'.shadow = cached_blurred_shadow'

\* C36: a change of the shadow opacity or of the shadow offset leaves the
\* cached blurred shadow as it is and composes the shadow from it; a change
\* of the shadow radius leaves in the cache the blur, at the new radius, of
\* the working mask of that moment, and composes the shadow from that.
ShadowCacheFollowsRadiusOnly ==
    [][PlacementReusesCache /\ RadiusRecomputesCache]_vars

\* The shadow of a full mask, blurred at the second radius and placed at
\* another opacity and another offset than the first ones.
ShadowMovedAfterRadiusChange ==
    /\ enable_shadow_var
    /\ shadow_radius = 20
    /\ shadow_opacity = 80
    /\ shadow_x = 0
    /\ working_mask = NewL(original_image.size, 255)
    /\ cached_blurred_shadow = Some(BlurredShadow(working_mask, 20))
    /\ working_image.placed = Some(<<80, 0, 50>>)

\* ------------------------------------------------------- cache independence

background_change ==
    \/ \E mode \in BgModes : set_bg_mode(mode)
    \/ \E val \in BlurRadii : on_blur_slider_change(val)

shadow_change ==
    \/ toggle_shadow_options
    \/ \E r \in ShadowRadii : shadow_radius_slider(r)
    \/ shadow_placement_slider

\* C37: a change of the background mode or of the background blur radius
\* leaves the cached blurred shadow as it is, and a change of a shadow
\* setting (the toggle, the radius, the opacity, the offset) leaves the
\* cached blurred background as it is.
CachesIndependent ==
    [][/\ background_change
          => UNCHANGED <<cached_blurred_shadow, _last_shadow_radius>>
       /\ shadow_change => UNCHANGED cached_blur_image]_vars

\* Both caches filled, the background blurred at its second radius and the
\* shadow at its second radius and at another opacity.
BothCachesAfterBothChanges ==
    /\ bg_mode = "blur"
    /\ enable_shadow_var
    /\ current_blur_radius = 40
    /\ shadow_radius = 20
    /\ shadow_opacity = 80
    /\ ~IsNone(cached_blur_image)
    /\ Val(cached_blur_image).radius = 40
    /\ ~IsNone(cached_blurred_shadow)
    /\ Val(cached_blurred_shadow).radius = 20

\* ------------------------------------------------------------ failed edits

edit_reporting_error ==
    /\ \/ add_to_working_image
       \/ subtract_from_working_image
       \/ \E step \in LaterSteps : add_to_working_image_raised(step)
       \/ \E step \in LaterSteps : subtract_from_working_image_raised(step)
    /\ status' = "Error applying mask"

\* C38: an Add or a Subtract that reports "Error applying mask" leaves the
\* working mask, the undo and redo stacks and both caches as they were.
FailedEditChangesNothing ==
    [][edit_reporting_error
       => UNCHANGED <<working_mask, undo_history_mask, redo_history_mask,
                      cached_blurred_shadow, cached_blur_image>>]_vars

\* ----------------------------------------------------------------- aliasing

\* C39: the working mask is an image object of its own, and so is every
\* snapshot on the undo stack and on the redo stack: no two of them are one
\* object.
SnapshotsAreOwnObjects ==
    /\ Len(object_ids.undo) = Len(undo_history_mask)
    /\ Len(object_ids.redo) = Len(redo_history_mask)
    /\ Cardinality(Objects(object_ids)) =
           1 + Len(undo_history_mask) + Len(redo_history_mask)

\* After edits, undos and a redo: a snapshot to undo to, one to redo, and a
\* working mask that has the pixels of the top of the undo stack.
OwnObjectsAfterUndoAndRedo ==
    /\ Len(undo_history_mask) > 1
    /\ Len(redo_history_mask) > 0
    /\ working_mask = Last(undo_history_mask)
    /\ \E i \in 1 .. Len(cmd_log) : cmd_log[i].op = "undo"
    /\ \E i \in 1 .. Len(cmd_log) : cmd_log[i].op = "redo"

\* C40: the top of the undo stack has the pixels of the working mask, and
\* the undo stack and the redo stack together hold at most UNDO_STEPS
\* snapshots.
TopIsLiveAndStacksBounded ==
    /\ Len(undo_history_mask) > 0
    /\ Last(undo_history_mask) = working_mask
    /\ Len(undo_history_mask) + Len(redo_history_mask) <= UNDO_STEPS

\* A history that was full and has lost its first snapshot, after undos
\* down to a filled mask: the two stacks hold UNDO_STEPS snapshots.
FullHistoryPartlyUndone ==
    /\ Len(undo_history_mask) + Len(redo_history_mask) = UNDO_STEPS
    /\ Len(redo_history_mask) > 1
    /\ Len(undo_history_mask) > 1
    /\ undo_history_mask[1] = NewL(original_image.size, 255)
    /\ working_mask = NewL(original_image.size, 255)

====
